---- MODULE Spec2Model ----
(***************************************************************************)
(* The RAG request pipeline of Grasphoffer: the in-memory job store and    *)
(* its three HTTP handlers (routes/rag.js, the tail of                     *)
(* src/src/lib/geminiTTS.js), the background task processRAGRequest with   *)
(* the lazily initialised services it drives (ragService, embeddingService,*)
(* groqService), and the polling client callTheHopper.                     *)
(*                                                                         *)
(* Node runs one task at a time.  A job's task is cut at its awaits: the   *)
(* continuation of an await on an already settled promise is a microtask,  *)
(* which runs before any other request, timer or I/O completion (variable  *)
(* micro); an await on real I/O (model load, inference, the Groq call) is  *)
(* a step other tasks interleave with.                                     *)
(*                                                                         *)
(* Some calls are also studied on their own, each under a specification of *)
(* its own: the POST /ask handler on bodies of arbitrary JavaScript values *)
(* (SubmitSpec), embeddingService.getRelevantContext with splitText        *)
(* computed on the sentence lengths of the corpus (RelevantSpec),          *)
(* findSimilar on the vectors embed returned (SimilarSpec), splitText on   *)
(* the characters of the text (SplitSpec), extractLearningStats on the     *)
(* sections of the corpus (StatsSpec), groqService.parseResponse          *)
(* (ParseSpec), what the handler forwards to the pipeline for a body that  *)
(* carries Stats (TwinSpec), two calls of findSimilar on the same chunk    *)
(* objects (MemoSpec) and the section-based selection of the corpus        *)
(* (TopSpec).  HungSpec is the pipeline with one job whose awaited call    *)
(* never settles.  Two components of the front end are followed through    *)
(* their state: the progress of a podcast generation (PodcastSpec) and the *)
(* loading flag of LearningComponent (LearnSpec).                          *)
(***************************************************************************)
EXTENDS Integers, Sequences, FiniteSets, TLC

\* ------------------------------------------------------------------ bounds
\* Number of requestIds uuidv4() issues in a run.
MaxJobs == 2

\* ------------------------------------------------------- program constants
\* The delay of the eviction setTimeout, 60 * 60 * 1000 ms, in hours: the
\* clock of the model ticks once an hour.
EvictDelay == 1
\* Ages of terminal jobs are counted up to one hour past the eviction delay.
MaxAge == EvictDelay + 1
\* callTheHopper: const maxAttempts = 300.
maxAttempts == 300
\* getRelevantContext(context, question, 4).
TopK == 4
\* A record field that has not been assigned (JavaScript undefined).
NoProgress == -1
Undefined == "undefined"

Ids == 1 .. MaxJobs
\* Ids a caller can ask about: the issued ones and 0, an id never issued.
LookupIds == 0 .. MaxJobs
Services == {"thehopper", "podcast"}

\* Request bodies: "" stands for a missing (falsy) field.
Questions == {"", "What is machine learning?"}
Contexts == {"", "Machine learning is a subset of artificial intelligence..."}
WeakConceptsIn == {<<"algorithms">>}

\* The text of a corpus is not modelled: the number of chunks
\* splitText(context, 1000, 200) cuts it into is drawn when it runs.
ChunkCounts == {1, 6}

\* Upstream failures.
LlmErrors == {"Connection error."}

VARIABLES
  store,      \* requestStore: requestId -> request record
  nextId,     \* the next requestId uuidv4() issues
  pc,         \* where each job's processRAGRequest task is suspended
  micro,      \* the job whose task has a microtask continuation pending, or 0
  timer,      \* ticks left on each job's eviction setTimeout, -1 if none
  age,        \* ticks since each stored job reached its terminal status
  embInit,    \* embeddingService.isInitialized
  embedder,   \* number of pipelines assigned to embeddingService.embedder
  ragInit,    \* ragService.isInitialized
  groqInit,   \* groqService.isInitialized
  apiKey,     \* whether process.env.GROQ_API_KEY is set
  relevant,   \* which return of getRelevantContext gave each job's context
  lastResp,   \* the response the last task sent, NoResp if it sent none
  cpc,        \* callTheHopper: position
  cjob,       \* callTheHopper: requestId, 0 before the submit
  attempts,   \* callTheHopper: attempts
  polls,      \* callTheHopper: status fetches issued
  cseen,      \* callTheHopper: status of this iteration's successful poll
  cerr,       \* callTheHopper: message of the error thrown, "" if none
  sub,        \* one POST /ask body and what the handler did with it
  gr,         \* one getRelevantContext call
  fs,         \* one findSimilar call, on the vectors embed returned
  sp,         \* one splitText call
  st,         \* one extractLearningStats call
  pr,         \* one parseResponse call
  tw,         \* two POST /ask bodies that differ in their Stats field
  mc,         \* two findSimilar calls on the same chunk objects
  tc,         \* one corpus on its way from processContext to the prompt
  pg,         \* one generatePodcast run of PodcastPage
  lc          \* one LearningComponent

serverVars == <<store, nextId, pc, micro, timer, age, embInit, embedder,
                ragInit, groqInit, apiKey, relevant>>
clientVars == <<cpc, cjob, attempts, polls, cseen, cerr>>
\* The state of the calls that are studied on their own.
fnVars == <<sub, gr, fs, sp, st, pr, tw, mc, tc, pg, lc>>
vars == <<serverVars, lastResp, clientVars, fnVars>>

\* ---------------------------------------------------------------- records
Terminal(r) == r.status \in {"completed", "failed", "error"}

\* requestStore.set(requestId, {...}) of POST /thehopper/ask.
NewRequest(q, c, w) ==
  [status |-> "processing", question |-> q, context |-> c,
   weakConcepts |-> w, service |-> "thehopper",
   progress |-> NoProgress, message |-> Undefined,
   result |-> <<>>, error |-> Undefined]

\* processRAGRequest without its first assignments: the record stays as stored.
ProcessRAGStart_NoProgress(r) == r

\* processRAGRequest awaited by the handler: the job is complete at the response.
ProcessRAGStart_Awaited(r) ==
  [r EXCEPT !.progress = 100, !.status = "completed",
            !.message = "Processing complete",
            !.result = <<[answer |-> "an answer", source |-> "RAG_SYSTEM"]>>]

\* processRAGRequest up to its first await.
ProcessRAGStart(r) ==
  [r EXCEPT !.status = "processing", !.progress = 10,
            !.message = "Processing context..."]

\* processRAGRequest after processContext has resolved.
ProcessRAGEmbedding(r) ==
  [r EXCEPT !.progress = 30, !.message = "Generating embeddings..."]

\* processRAGRequest after generateResponse has resolved.
ProcessRAGComplete(r, res) ==
  [r EXCEPT !.progress = 100, !.status = "completed",
            !.message = "Processing complete", !.result = <<res>>]

\* A catch block that also sets the progress back to 0.
ProcessRAGCatch_ResetProgress(r, msg) ==
  [r EXCEPT !.status = "error", !.error = msg,
            !.message = "Processing failed", !.progress = 0]

\* The catch block of processRAGRequest.
ProcessRAGCatch(r, msg) ==
  [r EXCEPT !.status = "error", !.error = msg,
            !.message = "Processing failed"]

\* The messages the services wrap around a failure.
RagFailed(msg) == "RAG pipeline failed: " \o msg
GroqFailed(msg) == "Groq API error: " \o msg
InitFailedMsg == RagFailed("Failed to initialize RAG service")
EmptyCompletionMsg == RagFailed(GroqFailed("No response generated from Groq API"))

\* String.prototype.trim, over the completions of the model.
Trim(text) == IF text = " " THEN "" ELSE text

\* groqService.parseResponse plus the fields generateResponse adds.
LlmResult(text) == [answer |-> Trim(text), source |-> "RAG_SYSTEM"]

\* ------------------------------------------------------------- responses
NoResp ==
  [endpoint |-> "none", id |-> 0, code |-> 0, success |-> FALSE,
   status |-> Undefined, progress |-> NoProgress, message |-> Undefined,
   error |-> Undefined, answer |-> Undefined]

AskRejected ==
  [NoResp EXCEPT !.endpoint = "ask", !.code = 400,
                 !.error = "Question and context are required"]

AskAccepted(id) ==
  [NoResp EXCEPT !.endpoint = "ask", !.id = id, !.code = 200,
                 !.success = TRUE,
                 !.message = "Question submitted for processing"]

\* The status handler without its 404 branch: an id that is not in the
\* store is reported as a job still processing.
StatusResponse_UnknownPending(s, service, id) ==
  LET base == [NoResp EXCEPT !.endpoint = "status", !.id = id] IN
  IF id \notin DOMAIN s
    THEN [base EXCEPT !.code = 200, !.success = TRUE, !.status = "processing",
                      !.progress = 0, !.message = ""]
  ELSE IF s[id].service # service
    THEN [base EXCEPT !.code = 400, !.error = "Service mismatch"]
  ELSE [base EXCEPT !.code = 200, !.success = TRUE,
                    !.status = s[id].status,
                    !.progress = IF s[id].progress = NoProgress
                                   THEN 0 ELSE s[id].progress,
                    !.message = IF s[id].message = Undefined
                                  THEN "" ELSE s[id].message]

\* GET /:service/status/:requestId on store s.
StatusResponse(s, service, id) ==
  LET base == [NoResp EXCEPT !.endpoint = "status", !.id = id] IN
  IF id \notin DOMAIN s
    THEN [base EXCEPT !.code = 404, !.error = "Request not found"]
  ELSE IF s[id].service # service
    THEN [base EXCEPT !.code = 400, !.error = "Service mismatch"]
  ELSE [base EXCEPT !.code = 200, !.success = TRUE,
                    !.status = s[id].status,
                    !.progress = IF s[id].progress = NoProgress
                                   THEN 0 ELSE s[id].progress,
                    !.message = IF s[id].message = Undefined
                                  THEN "" ELSE s[id].message]

\* The result handler without `.status(202)`: a job that is not completed
\* is answered 200.
ResultResponse_Not202(s, service, id) ==
  LET base == [NoResp EXCEPT !.endpoint = "result", !.id = id] IN
  IF id \notin DOMAIN s
    THEN [base EXCEPT !.code = 404, !.error = "Request not found"]
  ELSE IF s[id].service # service
    THEN [base EXCEPT !.code = 400, !.error = "Service mismatch"]
  ELSE IF s[id].status # "completed"
    THEN [base EXCEPT !.code = 200, !.error = "Request not completed yet",
                      !.status = s[id].status]
  ELSE [base EXCEPT !.code = 200, !.success = TRUE,
                    !.answer = s[id].result[1].answer]

\* GET /:service/result/:requestId on store s.
ResultResponse(s, service, id) ==
  LET base == [NoResp EXCEPT !.endpoint = "result", !.id = id] IN
  IF id \notin DOMAIN s
    THEN [base EXCEPT !.code = 404, !.error = "Request not found"]
  ELSE IF s[id].service # service
    THEN [base EXCEPT !.code = 400, !.error = "Service mismatch"]
  ELSE IF s[id].status # "completed"
    THEN [base EXCEPT !.code = 202, !.error = "Request not completed yet",
                      !.status = s[id].status]
  ELSE [base EXCEPT !.code = 200, !.success = TRUE,
                    !.answer = s[id].result[1].answer]

\* ------------------------------------------------- JavaScript values
\* The fields of a request body as express.json() parses them: a value is
\* its type and its text (the numeral of a number, the items of an array).
JsUndefined == [type |-> "undefined", text |-> ""]
JsString(t) == [type |-> "string", text |-> t]
JsNumber(t) == [type |-> "number", text |-> t]
JsArray(t) == [type |-> "array", text |-> t]

\* ToBoolean: undefined, "", 0 and NaN are falsy; every array is truthy.
Truthy(v) ==
  CASE v.type = "undefined" -> FALSE
    [] v.type = "string" -> v.text # ""
    [] v.type = "number" -> v.text \notin {"0", "NaN"}
    [] OTHER -> TRUE

\* The test of POST /thehopper/ask with `!context` left out.
AskValidates_QuestionOnly(body) == Truthy(body.question)

\* `if (!question || !context)` of POST /thehopper/ask, negated: the only
\* test the handler makes before it stores the request.
AskValidates(body) == Truthy(body.question) /\ Truthy(body.context)

\* ragService.validatePayload(payload).valid on question, context and
\* weakConcepts.  No route calls it.
ValidatePayload(body) ==
  /\ Truthy(body.question) /\ body.question.type = "string"
  /\ Truthy(body.context) /\ body.context.type = "string"
  /\ ~(Truthy(body.weakConcepts) /\ body.weakConcepts.type # "array")

\* Bodies a client can send.
QuestionValues ==
  {JsUndefined, JsString(""), JsString("What is machine learning?"),
   JsNumber("0"), JsNumber("42"), JsArray("What,is")}
ContextValues ==
  {JsUndefined, JsString(""), JsString("Machine learning is a subset..."),
   JsNumber("0"), JsNumber("42"), JsArray("Machine,learning")}
WeakConceptsValues ==
  {JsUndefined, JsArray("algorithms"), JsString("algorithms"), JsNumber("7")}

\* No POST /ask body under study / no getRelevantContext call under study.
SubIdle ==
  [pc |-> "idle", question |-> JsUndefined, context |-> JsUndefined,
   weakConcepts |-> JsUndefined, code |-> 0, success |-> FALSE,
   created |-> FALSE]
GrIdle ==
  [pc |-> "idle", isString |-> TRUE, sentences |-> <<>>, k |-> 0,
   chunks |-> 0, calls |-> 0, failed |-> FALSE, result |-> "none"]

\* No findSimilar, splitText, extractLearningStats or parseResponse call
\* under study.
FsIdle ==
  [pc |-> "idle", query |-> <<>>, docs |-> <<>>, k |-> 0, scores |-> <<>>,
   results |-> <<>>]
SpIdle ==
  [pc |-> "idle", sentences |-> <<>>, chunkSize |-> 0, overlap |-> 0,
   chunks |-> <<>>]
StIdle ==
  [pc |-> "idle", isString |-> TRUE, blocks |-> <<>>,
   areasOfDifficulty |-> <<>>, learningProgressSummary |-> <<>>]
PrIdle ==
  [pc |-> "idle", response |-> "", isString |-> TRUE, sections |-> <<>>,
   hits |-> <<>>, answer |-> "", citations |-> <<>>, themes |-> <<>>]

\* No call under study, for the calls whose records are made when they are
\* called.
NoCall == [pc |-> "idle"]

\* ------------------------------------------------------------------- init
ServerInit ==
  /\ store = <<>>
  /\ nextId = 1
  /\ pc = [i \in Ids |-> "none"]
  /\ micro = 0
  /\ timer = [i \in Ids |-> -1]
  /\ age = [i \in Ids |-> 0]
  /\ embInit = FALSE
  /\ embedder = 0
  /\ ragInit = FALSE
  /\ groqInit = FALSE
  /\ apiKey \in BOOLEAN
  /\ relevant = [i \in Ids |-> "none"]
  /\ lastResp = NoResp

ClientInit ==
  /\ cpc = "idle"
  /\ cjob = 0
  /\ attempts = 0
  /\ polls = 0
  /\ cseen = "none"
  /\ cerr = ""

Init ==
  /\ ServerInit
  /\ ClientInit
  /\ tw = NoCall
  /\ mc = NoCall
  /\ tc = NoCall
  /\ pg = NoCall
  /\ lc = NoCall
  /\ sub = SubIdle
  /\ gr = GrIdle
  /\ fs = FsIdle
  /\ sp = SpIdle
  /\ st = StIdle
  /\ pr = PrIdle

\* ------------------------------------------------------- request handlers
\* POST /thehopper/ask: validate, store the request, start processRAGRequest
\* (which runs to its first await) and send the response.
AskHandler(q, c, w) ==
  IF ~AskValidates([question |-> JsString(q), context |-> JsString(c)])
    THEN /\ lastResp' = AskRejected
         /\ UNCHANGED serverVars
    ELSE /\ nextId <= MaxJobs
         /\ store' = (nextId :> ProcessRAGStart(NewRequest(q, c, w))) @@ store
         /\ pc' = [pc EXCEPT ![nextId] = "ctx"]
         /\ micro' = nextId
         /\ lastResp' = AskAccepted(nextId)
         /\ nextId' = nextId + 1
         /\ UNCHANGED <<timer, age, embInit, embedder, ragInit, groqInit,
                        apiKey, relevant>>

Ask(q, c, w) ==
  /\ micro = 0
  /\ AskHandler(q, c, w)
  /\ UNCHANGED <<clientVars, fnVars>>

\* The status handler deleting a job once its terminal status has been read.
Status_EvictOnRead(service, id) ==
  /\ micro = 0
  /\ lastResp' = StatusResponse(store, service, id)
  /\ store' = IF id \in DOMAIN store /\ Terminal(store[id])
                THEN [i \in DOMAIN store \ {id} |-> store[i]]
                ELSE store
  /\ UNCHANGED <<nextId, pc, micro, timer, age, embInit, embedder, ragInit,
                 groqInit, apiKey, relevant, clientVars, fnVars>>

\* GET /:service/status/:requestId.
Status(service, id) ==
  /\ micro = 0
  /\ lastResp' = StatusResponse(store, service, id)
  /\ UNCHANGED <<serverVars, clientVars, fnVars>>

\* GET /:service/result/:requestId.
Result(service, id) ==
  /\ micro = 0
  /\ lastResp' = ResultResponse(store, service, id)
  /\ UNCHANGED <<serverVars, clientVars, fnVars>>

\* getRelevantContext with `<` for `<=`: a corpus of exactly k chunks is ranked.
FewChunks_Strict(n, k) == n < k

\* `chunks.length <= k` of getRelevantContext.
FewChunks(n, k) == n <= k

\* ------------------------------------------------------------ the pipeline
ProcessContextFailedMsg == "Failed to process context"

\* contextProcessor.processContext with its inner catches left out: a
\* failure of the extraction reaches the catch of processContext.
ProcessContext_Rethrow(extractOk) ==
  [threw |-> ~extractOk, stats |-> IF extractOk THEN "extracted" ELSE "empty"]

\* contextProcessor.processContext: extractLearningStats and
\* getTopRelevantContext catch what they throw, the first returning empty
\* statistics, so processContext resolves whether or not the extraction
\* worked (extractOk).
ProcessContext(extractOk) ==
  [threw |-> FALSE, stats |-> IF extractOk THEN "extracted" ELSE "empty"]

\* embeddingService.getRelevantContext up to its first await, on a corpus
\* splitText cuts into n chunks (splitOk) or throws on: a throw is caught
\* and the corpus returned, at most TopK chunks return the corpus at once,
\* more chunks leave the call pending on the embedder inside findSimilar.
GetRelevantContext(n, splitOk) ==
  IF ~splitOk THEN "fallback"
  ELSE IF FewChunks(n, TopK) THEN "corpus"
  ELSE "pending"

\* Where generateResponse is suspended next: the Groq call follows a
\* context that was returned, the embedder one that is pending.
RelevantPc(n, splitOk) ==
  IF GetRelevantContext(n, splitOk) = "pending" THEN "embed" ELSE "llm"

\* ragService.initialize after `await embeddingService.initialize()`:
\* groqService.initialize() throws without an API key; otherwise
\* generateResponse goes on to getRelevantContext.
AfterEmbeddingReady(id, r, n, splitOk) ==
  IF apiKey \/ groqInit
    THEN /\ groqInit' = TRUE
         /\ ragInit' = TRUE
         /\ store' = [store EXCEPT ![id] = r]
         /\ pc' = [pc EXCEPT ![id] = RelevantPc(n, splitOk)]
         /\ relevant' = [relevant EXCEPT ![id] = GetRelevantContext(n, splitOk)]
    ELSE /\ UNCHANGED <<groqInit, ragInit, relevant>>
         /\ store' = [store EXCEPT ![id] = ProcessRAGCatch(r, InitFailedMsg)]
         /\ pc' = [pc EXCEPT ![id] = "threw"]

\* The microtasks that follow POST /ask: processContext resolves, progress
\* goes to 30 and ragService.generateResponse runs to its first I/O await.
CtxContinue(n, splitOk, extractOk) ==
  /\ micro # 0
  /\ pc[micro] = "ctx"
  /\ micro' = 0
  /\ LET r == ProcessRAGEmbedding(store[micro]) IN
     IF ProcessContext(extractOk).threw
       THEN /\ store' = [store EXCEPT ![micro] =
                           ProcessRAGCatch(@, ProcessContextFailedMsg)]
            /\ pc' = [pc EXCEPT ![micro] = "threw"]
            /\ UNCHANGED <<groqInit, ragInit, relevant>>
     ELSE IF ragInit
       THEN /\ store' = [store EXCEPT ![micro] = r]
            /\ pc' = [pc EXCEPT ![micro] = RelevantPc(n, splitOk)]
            /\ relevant' = [relevant EXCEPT ![micro] =
                              GetRelevantContext(n, splitOk)]
            /\ UNCHANGED <<groqInit, ragInit>>
     ELSE IF embInit
       THEN AfterEmbeddingReady(micro, r, n, splitOk)
     ELSE /\ store' = [store EXCEPT ![micro] = r]
          /\ pc' = [pc EXCEPT ![micro] = "embInit"]
          /\ UNCHANGED <<groqInit, ragInit, relevant>>
  /\ lastResp' = NoResp
  /\ UNCHANGED <<nextId, timer, age, embInit, embedder, apiKey, clientVars,
                 fnVars>>

\* embeddingService.initialize: `await pipeline(...)` settles.
EmbInitDone(id, ok, n, splitOk) ==
  /\ micro = 0
  /\ pc[id] = "embInit"
  /\ IF ok
       THEN /\ embedder' = embedder + 1
            /\ embInit' = TRUE
            /\ AfterEmbeddingReady(id, store[id], n, splitOk)
       ELSE /\ store' = [store EXCEPT ![id] = ProcessRAGCatch(@, InitFailedMsg)]
            /\ pc' = [pc EXCEPT ![id] = "threw"]
            /\ UNCHANGED <<embedder, embInit, groqInit, ragInit, relevant>>
  /\ lastResp' = NoResp
  /\ UNCHANGED <<nextId, micro, timer, age, apiKey, clientVars, fnVars>>

\* findSimilar's embedder calls settle: with the vectors the ranked chunks
\* are returned; getRelevantContext catches a failure and returns the whole
\* corpus, so either way the Groq call follows.
EmbedDone(id, ok) ==
  /\ micro = 0
  /\ pc[id] = "embed"
  /\ pc' = [pc EXCEPT ![id] = "llm"]
  /\ relevant' = [relevant EXCEPT ![id] = IF ok THEN "ranked" ELSE "fallback"]
  /\ lastResp' = NoResp
  /\ UNCHANGED <<store, nextId, micro, timer, age, embInit, embedder, ragInit,
                 groqInit, apiKey, clientVars, fnVars>>

\* What the chat completion can settle with: a text (NoCompletion when
\* choices[0]?.message?.content is missing or empty) or an error.
NoCompletion == ""
LlmCompletions == {"an answer", " "}
LlmOutcomes == LlmCompletions \cup {NoCompletion} \cup LlmErrors

\* groqService.generateResponse: the chat completion settles; on success
\* processRAGRequest stores the result and sets the eviction timer.
LlmDone(id, outcome) ==
  /\ micro = 0
  /\ pc[id] = "llm"
  /\ IF outcome \in LlmErrors
       THEN /\ store' = [store EXCEPT ![id] =
                           ProcessRAGCatch(@, RagFailed(GroqFailed(outcome)))]
            /\ pc' = [pc EXCEPT ![id] = "threw"]
            /\ UNCHANGED timer
     ELSE IF outcome = NoCompletion
       THEN /\ store' = [store EXCEPT ![id] =
                           ProcessRAGCatch(@, EmptyCompletionMsg)]
            /\ pc' = [pc EXCEPT ![id] = "threw"]
            /\ UNCHANGED timer
     ELSE /\ store' = [store EXCEPT ![id] =
                         ProcessRAGComplete(@, LlmResult(outcome))]
          /\ pc' = [pc EXCEPT ![id] = "done"]
          /\ timer' = [timer EXCEPT ![id] = EvictDelay]
  /\ relevant' = [relevant EXCEPT ![id] = "none"]
  /\ lastResp' = NoResp
  /\ UNCHANGED <<nextId, micro, age, embInit, embedder, ragInit, groqInit,
                 apiKey, clientVars, fnVars>>

\* A sweep of the store that deletes a job whether or not its timer is due.
Evict_Sweep(id) ==
  /\ micro = 0
  /\ id \in DOMAIN store
  /\ store' = [i \in DOMAIN store \ {id} |-> store[i]]
  /\ timer' = [timer EXCEPT ![id] = -1]
  /\ age' = [age EXCEPT ![id] = 0]
  /\ lastResp' = NoResp
  /\ UNCHANGED <<nextId, pc, micro, embInit, embedder, ragInit, groqInit,
                 apiKey, relevant, clientVars, fnVars>>

\* The setTimeout callback of processRAGRequest.
Evict(id) ==
  /\ micro = 0
  /\ timer[id] = 0
  /\ store' = [i \in DOMAIN store \ {id} |-> store[i]]
  /\ timer' = [timer EXCEPT ![id] = -1]
  /\ age' = [age EXCEPT ![id] = 0]
  /\ lastResp' = NoResp
  /\ UNCHANGED <<nextId, pc, micro, embInit, embedder, ragInit, groqInit,
                 apiKey, relevant, clientVars, fnVars>>

\* An hour passes: a due timer fires before the clock moves on.
Tick ==
  /\ micro = 0
  /\ \A i \in Ids : timer[i] # 0
  /\ timer' = [i \in Ids |-> IF timer[i] > 0 THEN timer[i] - 1 ELSE timer[i]]
  /\ age' = [i \in Ids |->
               IF i \in DOMAIN store /\ Terminal(store[i]) /\ age[i] < MaxAge
                 THEN age[i] + 1 ELSE age[i]]
  /\ <<timer', age'>> # <<timer, age>>
  /\ lastResp' = NoResp
  /\ UNCHANGED <<store, nextId, pc, micro, embInit, embedder, ragInit,
                 groqInit, apiKey, relevant, clientVars, fnVars>>

\* The microtask of the job that was just submitted.
CtxStep ==
  \E n \in ChunkCounts, splitOk \in BOOLEAN, extractOk \in BOOLEAN :
    CtxContinue(n, splitOk, extractOk)

Pipeline ==
  \/ CtxStep
  \/ \E id \in Ids, ok \in BOOLEAN, n \in ChunkCounts, splitOk \in BOOLEAN :
       EmbInitDone(id, ok, n, splitOk)
  \/ \E id \in Ids, ok \in BOOLEAN : EmbedDone(id, ok)
  \/ \E id \in Ids, o \in LlmOutcomes : LlmDone(id, o)
  \/ \E id \in Ids : Evict(id)
  \/ Tick

Next ==
  \/ \E q \in Questions, c \in Contexts, w \in WeakConceptsIn : Ask(q, c, w)
  \/ \E s \in Services, id \in LookupIds : Status(s, id)
  \/ \E s \in Services, id \in LookupIds : Result(s, id)
  \/ Pipeline

Spec == Init /\ [][Next]_vars

\* ------------------------------------------- an upstream call that hangs
\* The server when the awaited calls of one job, the last one submitted,
\* never settle: the model load, the embedder and the Groq call of HungJob
\* stay pending, everything else runs as in Spec.
HungJob == MaxJobs
Awaiting == {"embInit", "embed", "llm"}

HungNext ==
  \/ \E q \in Questions, c \in Contexts, w \in WeakConceptsIn : Ask(q, c, w)
  \/ \E s \in Services, id \in LookupIds : Status(s, id)
  \/ \E s \in Services, id \in LookupIds : Result(s, id)
  \/ CtxStep
  \/ \E id \in Ids \ {HungJob}, ok \in BOOLEAN, n \in ChunkCounts,
        splitOk \in BOOLEAN : EmbInitDone(id, ok, n, splitOk)
  \/ \E id \in Ids \ {HungJob}, ok \in BOOLEAN : EmbedDone(id, ok)
  \/ \E id \in Ids \ {HungJob}, o \in LlmOutcomes : LlmDone(id, o)
  \/ \E id \in Ids : Evict(id)
  \/ Tick

HungSpec == Init /\ [][HungNext]_vars

\* ------------------------------------------------------- callTheHopper
\* response.ok of fetch.
Ok(resp) == resp.code >= 200 /\ resp.code <= 299

\* The messages of the errors callTheHopper throws.
FetchFailedMsg == "Failed to fetch"
HttpErrorMsg(code) == "HTTP error! status: " \o ToString(code)
FetchResultFailedMsg(code) == "Failed to fetch result: " \o ToString(code)
ProcessingFailedMsg == "Processing failed"
TimedOutMsg == "Request timed out after 5 minutes of polling"

\* The outer catch of callTheHopper rethrows every error wrapped.
Wrapped(msg) ==
  "RAG Backend API Error: " \o msg
    \o ". Please ensure the backend server is running on the correct port."

\* error.message.includes('fetch'), over the messages thrown inside the loop.
MentionsFetch(msg) ==
  \/ msg = FetchFailedMsg
  \/ \E code \in {400, 404, 500} : msg = FetchResultFailedMsg(code)

\* Step 1: POST /api/thehopper/ask; net is whether fetch reaches the server.
ClientSubmit(q, c, w, net) ==
  /\ cpc = "idle"
  /\ micro = 0
  /\ IF ~net
       THEN /\ cpc' = "threw"
            /\ cerr' = Wrapped(FetchFailedMsg)
            /\ lastResp' = NoResp
            /\ UNCHANGED <<serverVars, cjob>>
       ELSE /\ AskHandler(q, c, w)
            /\ IF Ok(lastResp')
                 THEN /\ cpc' = "poll"
                      /\ cjob' = lastResp'.id
                      /\ cerr' = ""
                 ELSE /\ cpc' = "threw"
                      /\ cerr' = Wrapped(HttpErrorMsg(lastResp'.code))
                      /\ cjob' = cjob
  /\ UNCHANGED <<attempts, polls, cseen, fnVars>>

\* A polling loop that gives up on a response that is not ok.
ClientPoll_ThrowOnHttpError(net) ==
  /\ cpc = "poll"
  /\ micro = 0
  /\ polls' = polls + 1
  /\ lastResp' = IF net THEN StatusResponse(store, "thehopper", cjob) ELSE NoResp
  /\ IF net /\ Ok(lastResp') /\ lastResp'.success
       THEN /\ cseen' = lastResp'.status
            /\ cpc' = IF lastResp'.status = "completed" THEN "getResult"
                      ELSE IF lastResp'.status = "failed" THEN "getFailed"
                      ELSE "wait"
            /\ cerr' = cerr
       ELSE /\ cseen' = "none"
            /\ cpc' = IF net THEN "threw" ELSE "wait"
            /\ cerr' = IF net THEN Wrapped(HttpErrorMsg(lastResp'.code))
                       ELSE cerr
  /\ UNCHANGED <<serverVars, cjob, attempts, fnVars>>

\* One status fetch of the polling loop.
ClientPoll(net) ==
  /\ cpc = "poll"
  /\ micro = 0
  /\ polls' = polls + 1
  /\ lastResp' = IF net THEN StatusResponse(store, "thehopper", cjob) ELSE NoResp
  /\ IF net /\ Ok(lastResp') /\ lastResp'.success
       THEN /\ cseen' = lastResp'.status
            /\ cpc' = IF lastResp'.status = "completed" THEN "getResult"
                      ELSE IF lastResp'.status = "failed" THEN "getFailed"
                      ELSE "wait"
       ELSE /\ cseen' = "none"
            /\ cpc' = "wait"
  /\ UNCHANGED <<serverVars, cjob, attempts, cerr, fnVars>>

\* The result fetch of the completed branch and of the failed branch.  An
\* error whose name is TypeError or whose message mentions fetch is taken
\* for a network error: the loop waits and polls again.
ClientFetchResult(net) ==
  /\ cpc \in {"getResult", "getFailed"}
  /\ micro = 0
  /\ lastResp' = IF net THEN ResultResponse(store, "thehopper", cjob) ELSE NoResp
  /\ LET resp == lastResp'
         thrown ==
           IF ~net THEN FetchFailedMsg
           ELSE IF cpc = "getResult"
             THEN IF ~Ok(resp) THEN FetchResultFailedMsg(resp.code)
                  ELSE IF resp.success THEN ""
                  ELSE resp.error
           ELSE IF Ok(resp) THEN resp.error ELSE ProcessingFailedMsg
     IN IF thrown = ""
          THEN /\ cpc' = "returned"
               /\ cerr' = ""
        ELSE IF MentionsFetch(thrown)
          THEN /\ cpc' = "wait"
               /\ cerr' = cerr
        ELSE /\ cpc' = "threw"
             /\ cerr' = Wrapped(thrown)
  /\ UNCHANGED <<serverVars, cjob, attempts, polls, cseen, fnVars>>

\* The polling loop with the attempts++ of its catch branch left out: an
\* iteration without a successful poll is not counted.
ClientWait_NoCountOnError ==
  /\ cpc = "wait"
  /\ attempts' = IF cseen = "none" THEN attempts ELSE attempts + 1
  /\ cseen' = "none"
  /\ IF attempts' < maxAttempts
       THEN /\ cpc' = "poll"
            /\ cerr' = cerr
       ELSE /\ cpc' = "threw"
            /\ cerr' = Wrapped(TimedOutMsg)
  /\ UNCHANGED <<serverVars, lastResp, cjob, polls, fnVars>>

\* The pollInterval timeout, attempts++ and the loop test.
ClientWait ==
  /\ cpc = "wait"
  /\ attempts' = attempts + 1
  /\ cseen' = "none"
  /\ IF attempts + 1 < maxAttempts
       THEN /\ cpc' = "poll"
            /\ cerr' = cerr
       ELSE /\ cpc' = "threw"
            /\ cerr' = Wrapped(TimedOutMsg)
  /\ UNCHANGED <<serverVars, lastResp, cjob, polls, fnVars>>

ClientStep ==
  \/ \E q \in Questions, c \in Contexts, w \in WeakConceptsIn, net \in BOOLEAN :
       ClientSubmit(q, c, w, net)
  \/ \E net \in BOOLEAN : ClientPoll(net)
  \/ \E net \in BOOLEAN : ClientFetchResult(net)
  \/ ClientWait

ClientNext == ClientStep \/ Pipeline

\* One callTheHopper call against the server.  Every fetch and every timer
\* of the client settles, and a pending microtask runs.
ClientSpec ==
  /\ Init
  /\ [][ClientNext]_vars
  /\ WF_vars(ClientStep)
  /\ WF_vars(CtxStep)

\* ------------------------------------------ POST /ask on any body
\* The handler on a body of JavaScript values: a body that passes the
\* truthiness test is stored as a job (weakConcepts || []) and answered 200
\* with its requestId, any other is answered 400.
SubmitBody ==
  /\ sub.pc = "received"
  /\ sub' = [sub EXCEPT !.pc = "answered",
                        !.code = IF AskValidates(sub) THEN 200 ELSE 400,
                        !.success = AskValidates(sub),
                        !.created = AskValidates(sub)]
  /\ UNCHANGED <<serverVars, lastResp, clientVars, gr, fs, sp, st, pr,
                 tw, mc, tc, pg, lc>>

SubmitInit ==
  /\ ServerInit
  /\ ClientInit
  /\ tw = NoCall
  /\ mc = NoCall
  /\ tc = NoCall
  /\ pg = NoCall
  /\ lc = NoCall
  /\ gr = GrIdle
  /\ fs = FsIdle
  /\ sp = SpIdle
  /\ st = StIdle
  /\ pr = PrIdle
  /\ \E q \in QuestionValues, c \in ContextValues, w \in WeakConceptsValues :
       sub = [SubIdle EXCEPT !.pc = "received", !.question = q,
                             !.context = c, !.weakConcepts = w]

SubmitSpec == SubmitInit /\ [][SubmitBody]_vars

\* ------------------------------------------------- getRelevantContext
\* A corpus is the lengths of its sentences, the pieces text.split(/[.!?]+/)
\* leaves after trimming, or something that is not a string at all.
MaxSentences == 5
SentenceLengths == {400, 700}
ChunkSize == 1000
Overlap == 200
Ks == {2, 4}

RECURSIVE SeqsUpTo(_)
SeqsUpTo(n) ==
  IF n = 0 THEN {<<>>}
  ELSE LET shorter == SeqsUpTo(n - 1) IN
       shorter \cup {Append(t, l) : t \in shorter, l \in SentenceLengths}
Corpora == SeqsUpTo(MaxSentences)

\* splitText from sentence i on, cur being currentChunk.length: the lengths
\* of the chunks pushed (each without its closing full stop).
RECURSIVE SplitFrom(_, _, _, _, _)
SplitFrom(sentences, i, cur, chunkSize, overlap) ==
  LET pushed == IF cur > 0 THEN <<cur>> ELSE <<>> IN
  IF i > Len(sentences) THEN pushed
  ELSE IF cur + sentences[i] + 1 <= chunkSize
    THEN SplitFrom(sentences, i + 1,
                   (IF cur > 0 THEN cur + 2 ELSE 0) + sentences[i],
                   chunkSize, overlap)
  ELSE pushed \o
       SplitFrom(sentences, i + 1,
                 IF overlap > 0 /\ cur > overlap
                   THEN overlap + 2 + sentences[i] ELSE sentences[i],
                 chunkSize, overlap)

SplitText(sentences, chunkSize, overlap) ==
  SplitFrom(sentences, 1, 0, chunkSize, overlap)

\* getRelevantContext with a catch that rethrows.
GrCatch_Rethrow(g) == [g EXCEPT !.pc = "threw", !.failed = TRUE]

\* The catch of getRelevantContext: `return context`.
GrCatch(g) == [g EXCEPT !.pc = "returned", !.failed = TRUE, !.result = "corpus"]

\* getRelevantContext up to its first await: splitText throws on a corpus
\* that is not a string; few chunks return the corpus; otherwise findSimilar
\* issues the embedding of the query.
GrCall ==
  /\ gr.pc = "called"
  /\ LET n == Len(SplitText(gr.sentences, ChunkSize, Overlap)) IN
     gr' = IF ~gr.isString THEN GrCatch(gr)
           ELSE IF FewChunks(n, gr.k)
             THEN [gr EXCEPT !.pc = "returned", !.chunks = n,
                             !.result = "corpus"]
           ELSE [gr EXCEPT !.pc = "embedding", !.chunks = n, !.calls = 1]
  /\ UNCHANGED <<serverVars, lastResp, clientVars, sub, fs, sp, st, pr,
                 tw, mc, tc, pg, lc>>

\* An embed call of findSimilar settles: a failure is rethrown by findSimilar
\* and caught by getRelevantContext; after the query every chunk is embedded
\* in turn; with all vectors the chunks are scored and sorted (rankOk:
\* cosineSimilarity does not throw) and the top k are joined and returned.
GrEmbedSettled(ok, rankOk) ==
  /\ gr.pc = "embedding"
  /\ gr' = IF ~ok THEN GrCatch(gr)
           ELSE IF gr.calls < gr.chunks + 1
             THEN [gr EXCEPT !.calls = @ + 1]
           ELSE IF ~rankOk THEN GrCatch(gr)
           ELSE [gr EXCEPT !.pc = "returned", !.result = "ranked"]
  /\ UNCHANGED <<serverVars, lastResp, clientVars, sub, fs, sp, st, pr,
                 tw, mc, tc, pg, lc>>

RelevantInit ==
  /\ ServerInit
  /\ ClientInit
  /\ tw = NoCall
  /\ mc = NoCall
  /\ tc = NoCall
  /\ pg = NoCall
  /\ lc = NoCall
  /\ sub = SubIdle
  /\ fs = FsIdle
  /\ sp = SpIdle
  /\ st = StIdle
  /\ pr = PrIdle
  /\ \E c \in Corpora, k \in Ks, isString \in BOOLEAN :
       /\ ~isString => c = <<>>
       /\ gr = [GrIdle EXCEPT !.pc = "called", !.isString = isString,
                              !.sentences = c, !.k = k]

RelevantNext ==
  \/ GrCall
  \/ \E ok \in BOOLEAN, rankOk \in BOOLEAN : GrEmbedSettled(ok, rankOk)

RelevantSpec == RelevantInit /\ [][RelevantNext]_vars

\* ------------------------------------------------------- findSimilar
\* The vectors embed returned for the query and for each chunk.  <<1>> is
\* a vector of another length than the query's.
MaxDocs == 3
Vectors == {<<1, 0>>, <<0, 1>>, <<1, 1>>, <<0, 0>>, <<-1, 0>>}
DocVectors == Vectors \cup {<<1>>}
KValues == {-1, 0, 2, 5}

RECURSIVE DocsUpTo(_)
DocsUpTo(n) ==
  IF n = 0 THEN {<<>>}
  ELSE LET shorter == DocsUpTo(n - 1) IN
       shorter \cup {Append(t, v) : t \in shorter, v \in DocVectors}

\* The loop of cosineSimilarity: the sum of a[i] * b[i] from i on.
RECURSIVE SumProducts(_, _, _)
SumProducts(a, b, i) ==
  IF i > Len(a) THEN 0 ELSE a[i] * b[i] + SumProducts(a, b, i + 1)

\* A score is the number num / sqrt(den), NaN, or the error thrown.
ZeroScore == [kind |-> "number", num |-> 0, den |-> 1]
NaNScore == [kind |-> "NaN", num |-> 0, den |-> 0]
ThrownScore == [kind |-> "threw", num |-> 0, den |-> 0]

\* dotProduct / (normA * normB), the norms given by their squares: with a
\* zero norm the dot product is 0 too and 0 / 0 is NaN.
Divide(dot, normA2, normB2) ==
  IF normA2 * normB2 = 0 THEN NaNScore
  ELSE [kind |-> "number", num |-> dot, den |-> normA2 * normB2]

\* cosineSimilarity with `normA === 0` as its only test.
CosineSimilarity_OneNormTest(a, b) ==
  IF Len(a) # Len(b) THEN ThrownScore
  ELSE IF SumProducts(a, a, 1) = 0 THEN ZeroScore
  ELSE Divide(SumProducts(a, b, 1), SumProducts(a, a, 1), SumProducts(b, b, 1))

\* embeddingService.cosineSimilarity.
CosineSimilarity(a, b) ==
  IF Len(a) # Len(b) THEN ThrownScore
  ELSE IF SumProducts(a, a, 1) = 0 \/ SumProducts(b, b, 1) = 0 THEN ZeroScore
  ELSE Divide(SumProducts(a, b, 1), SumProducts(a, a, 1), SumProducts(b, b, 1))

\* x > y on scores that are numbers: num / sqrt(den) compared by the signed
\* squares, cross-multiplied.
SignedSquare(x) == (IF x.num < 0 THEN -1 ELSE 1) * x.num * x.num
Greater(x, y) ==
  /\ x.kind = "number"
  /\ y.kind = "number"
  /\ SignedSquare(x) * y.den > SignedSquare(y) * x.den

\* A sort that puts an element before the elements it equals.
RECURSIVE InsertSorted_BeforeEquals(_, _)
InsertSorted_BeforeEquals(t, x) ==
  IF t = <<>> THEN <<x>>
  ELSE IF ~Greater(Head(t).score, x.score) THEN <<x>> \o t
  ELSE <<Head(t)>> \o InsertSorted_BeforeEquals(Tail(t), x)

\* similarities.sort((a, b) => b.score - a.score), a stable sort: x goes
\* before the first element the comparator puts after it.
RECURSIVE InsertSorted(_, _)
InsertSorted(t, x) ==
  IF t = <<>> THEN <<x>>
  ELSE IF Greater(x.score, Head(t).score) THEN <<x>> \o t
  ELSE <<Head(t)>> \o InsertSorted(Tail(t), x)

RECURSIVE SortFrom(_, _, _)
SortFrom(items, i, sorted) ==
  IF i > Len(items) THEN sorted
  ELSE SortFrom(items, i + 1, InsertSorted(sorted, items[i]))

\* Array.prototype.slice(0, k): a negative k counts from the end.
Slice(items, k) ==
  LET n == Len(items)
      end == IF k < 0 THEN (IF n + k < 0 THEN 0 ELSE n + k)
             ELSE (IF k > n THEN n ELSE k)
  IN SubSeq(items, 1, end)

\* findSimilar after its embed calls: score every chunk (a throw of
\* cosineSimilarity is rethrown), sort, slice.
FsRank ==
  /\ fs.pc = "called"
  /\ LET scores == [i \in 1 .. Len(fs.docs) |->
                      CosineSimilarity(fs.query, fs.docs[i])]
         similarities == [i \in 1 .. Len(fs.docs) |->
                            [index |-> i, score |-> scores[i]]]
     IN fs' = IF \E i \in 1 .. Len(fs.docs) : scores[i].kind = "threw"
                THEN [fs EXCEPT !.pc = "threw", !.scores = scores]
                ELSE [fs EXCEPT !.pc = "returned", !.scores = scores,
                                !.results =
                                  Slice(SortFrom(similarities, 1, <<>>), fs.k)]
  /\ UNCHANGED <<serverVars, lastResp, clientVars, sub, gr, sp, st, pr,
                 tw, mc, tc, pg, lc>>

SimilarInit ==
  /\ ServerInit
  /\ ClientInit
  /\ tw = NoCall
  /\ mc = NoCall
  /\ tc = NoCall
  /\ pg = NoCall
  /\ lc = NoCall
  /\ sub = SubIdle
  /\ gr = GrIdle
  /\ sp = SpIdle
  /\ st = StIdle
  /\ pr = PrIdle
  /\ \E q \in Vectors, docs \in DocsUpTo(MaxDocs), k \in KValues :
       fs = [FsIdle EXCEPT !.pc = "called", !.query = q, !.docs = docs,
                           !.k = k]

SimilarSpec == SimilarInit /\ [][FsRank]_vars

\* ---------------------------------------------------------- splitText
\* splitText on characters.  A text is given by the lengths of its trimmed
\* sentences; the j-th character of sentence i is <<i, j>>, so that every
\* character of a chunk tells where it comes from, and the separators the
\* chunker writes are characters of no sentence.
MaxSplitSentences == 3
SplitLengths == {2, 3, 9}
ChunkSizes == {7, 8}
Overlaps == {0, 2, 3}
FullStop == <<0, 0>>
Blank == <<0, 1>>

RECURSIVE LengthsUpTo(_)
LengthsUpTo(n) ==
  IF n = 0 THEN {<<>>}
  ELSE LET shorter == LengthsUpTo(n - 1) IN
       shorter \cup {Append(t, l) : t \in shorter, l \in SplitLengths}

\* trimmedSentence, for sentence i of the given length.
Sentence(i, length) == [j \in 1 .. length |-> <<i, j>>]

\* The overlap taken from any chunk: substring clamps a negative start, so
\* a chunk of at most `overlap` characters is carried whole.
StartChunk_NoGuard(cur, s, overlap) ==
  IF overlap > 0
    THEN SubSeq(cur, IF Len(cur) > overlap THEN Len(cur) - overlap + 1 ELSE 1,
                Len(cur)) \o <<FullStop, Blank>> \o s
    ELSE s

\* currentChunk after a chunk was closed: the trailing `overlap` characters
\* of a chunk longer than that, '. ' and the sentence, or the sentence alone.
StartChunk(cur, s, overlap) ==
  IF overlap > 0 /\ Len(cur) > overlap
    THEN SubSeq(cur, Len(cur) - overlap + 1, Len(cur))
           \o <<FullStop, Blank>> \o s
    ELSE s

\* The loop of splitText from sentence i on with currentChunk = cur, and
\* the push of the last chunk: the texts of the chunks pushed.
RECURSIVE SplitChunks(_, _, _, _, _)
SplitChunks(sentences, i, cur, chunkSize, overlap) ==
  LET pushed == IF cur # <<>> THEN <<cur \o <<FullStop>>>> ELSE <<>> IN
  IF i > Len(sentences) THEN pushed
  ELSE LET s == Sentence(i, sentences[i]) IN
       IF Len(cur) + Len(s) + 1 <= chunkSize
         THEN SplitChunks(sentences, i + 1,
                          (IF cur # <<>> THEN cur \o <<FullStop, Blank>>
                           ELSE <<>>) \o s,
                          chunkSize, overlap)
         ELSE pushed \o SplitChunks(sentences, i + 1,
                                    StartChunk(cur, s, overlap),
                                    chunkSize, overlap)

SpCall ==
  /\ sp.pc = "called"
  /\ sp' = [sp EXCEPT !.pc = "returned",
                      !.chunks = SplitChunks(sp.sentences, 1, <<>>,
                                             sp.chunkSize, sp.overlap)]
  /\ UNCHANGED <<serverVars, lastResp, clientVars, sub, gr, fs, st, pr,
                 tw, mc, tc, pg, lc>>

SplitInit ==
  /\ ServerInit
  /\ ClientInit
  /\ tw = NoCall
  /\ mc = NoCall
  /\ tc = NoCall
  /\ pg = NoCall
  /\ lc = NoCall
  /\ sub = SubIdle
  /\ gr = GrIdle
  /\ fs = FsIdle
  /\ st = StIdle
  /\ pr = PrIdle
  /\ \E t \in LengthsUpTo(MaxSplitSentences), size \in ChunkSizes,
        overlap \in Overlaps :
       sp = [SpIdle EXCEPT !.pc = "called", !.sentences = t,
                           !.chunkSize = size, !.overlap = overlap]

SplitSpec == SplitInit /\ [][SpCall]_vars

\* ------------------------------------------------ extractLearningStats
\* A corpus is a sequence of sections, each a "## " heading and the items
\* from..to written under it the way the heading's extractor reads them:
\* "- topic i" under Areas of Difficulty and under the unrecognized Notes,
\* "i% done" under Learning Progress, "**Q:** What is topic i?" under
\* Generated Flashcards and "**Score:** i" under Learning Sessions.  A
\* corpus that is not a string has no sections.
MaxBlocks == 2
StatsLimit == 10
Headings ==
  {"## Areas of Difficulty", "## Learning Progress",
   "## Generated Flashcards", "## Learning Sessions", "## Notes"}
ItemRanges == {<<1, 0>>, <<1, 6>>, <<4, 12>>}
Blocks ==
  {[heading |-> h, from |-> r[1], to |-> r[2]] : h \in Headings, r \in ItemRanges}

RECURSIVE BlocksUpTo(_)
BlocksUpTo(n) ==
  IF n = 0 THEN {<<>>}
  ELSE LET shorter == BlocksUpTo(n - 1) IN
       shorter \cup {Append(t, b) : t \in shorter, b \in Blocks}

\* context.match of a section pattern that stops at no heading: every
\* section matches.
MatchSections_AnyHeading(blocks, heading) == blocks

\* context.match(/## <heading>[\s\S]*?(?=##|$)/gi): the sections under the
\* heading, in order; none when match returns null.
MatchSections(blocks, heading) ==
  SelectSeq(blocks, LAMBDA b : b.heading = heading)

\* The items of a section, in order.
Items(block) == [j \in 1 .. (block.to - block.from + 1) |-> block.from + j - 1]

\* The items of the sections given, from section i on, in order.
RECURSIVE AllItems(_, _)
AllItems(sections, i) ==
  IF i > Len(sections) THEN <<>>
  ELSE Items(sections[i]) \o AllItems(sections, i + 1)

\* extractTopicsFromText on "- topic i"; extractConceptsFromQuestion on
\* "What is topic i?", which gives the same string.
Topic(i) == "topic " \o ToString(i)
\* extractProgressFromText on "i% done".
CompletionRate(i) == "Completion rate: " \o ToString(i) \o "%"
\* extractSessionStats on "**Score:** i", every i here being below 70.
LowPerformance(i) == "Low performance area (" \o ToString(i) \o "%)"

\* matches.forEach(match => list.push(...extract(match))): what the
\* extractor gets from each item of the sections given.
PushTopics(sections) ==
  [j \in 1 .. Len(AllItems(sections, 1)) |-> Topic(AllItems(sections, 1)[j])]
PushCompletionRates(sections) ==
  [j \in 1 .. Len(AllItems(sections, 1)) |->
     CompletionRate(AllItems(sections, 1)[j])]
PushLowPerformance(sections) ==
  [j \in 1 .. Len(AllItems(sections, 1)) |->
     LowPerformance(AllItems(sections, 1)[j])]

\* extractFlashcardStats: one "Generated n flashcards" for each section
\* that has questions.
RECURSIVE FlashcardCounts(_, _)
FlashcardCounts(sections, i) ==
  IF i > Len(sections) THEN <<>>
  ELSE (IF Len(Items(sections[i])) > 0
          THEN <<"Generated " \o ToString(Len(Items(sections[i])))
                   \o " flashcards">>
          ELSE <<>>)
         \o FlashcardCounts(sections, i + 1)

\* The merge without `new Set`.
Dedup_Keep(list) ==
  [i \in 1 .. Len(list) |-> [text |-> list[i], fresh |-> TRUE]]

\* [...new Set(list)]: the first occurrence of each string, in order.
Dedup(list) ==
  SelectSeq([i \in 1 .. Len(list) |->
               [text |-> list[i],
                fresh |-> \A j \in 1 .. i - 1 : list[j] # list[i]]],
            LAMBDA e : e.fresh)

\* .slice(0, 10) of the deduplicated list.
Limit(entries) ==
  [i \in 1 .. (IF Len(entries) > StatsLimit THEN StatsLimit ELSE Len(entries))
     |-> entries[i].text]

\* extractLearningStats: a corpus that is not a string throws at
\* context.match and the catch returns two empty lists.
ExtractLearningStats(isString, blocks) ==
  IF ~isString
    THEN [areasOfDifficulty |-> <<>>, learningProgressSummary |-> <<>>]
    ELSE [areasOfDifficulty |->
            Limit(Dedup(
              PushTopics(MatchSections(blocks, "## Areas of Difficulty"))
              \o PushTopics(MatchSections(blocks, "## Generated Flashcards"))
              \o PushLowPerformance(
                   MatchSections(blocks, "## Learning Sessions")))),
          learningProgressSummary |->
            Limit(Dedup(
              PushCompletionRates(
                MatchSections(blocks, "## Learning Progress"))
              \o FlashcardCounts(
                   MatchSections(blocks, "## Generated Flashcards"), 1)))]

StCall ==
  /\ st.pc = "called"
  /\ LET stats == ExtractLearningStats(st.isString, st.blocks) IN
     st' = [st EXCEPT !.pc = "returned",
                      !.areasOfDifficulty = stats.areasOfDifficulty,
                      !.learningProgressSummary = stats.learningProgressSummary]
  /\ UNCHANGED <<serverVars, lastResp, clientVars, sub, gr, fs, sp, pr,
                 tw, mc, tc, pg, lc>>

StatsInit ==
  /\ ServerInit
  /\ ClientInit
  /\ tw = NoCall
  /\ mc = NoCall
  /\ tc = NoCall
  /\ pg = NoCall
  /\ lc = NoCall
  /\ sub = SubIdle
  /\ gr = GrIdle
  /\ fs = FsIdle
  /\ sp = SpIdle
  /\ pr = PrIdle
  /\ \E blocks \in BlocksUpTo(MaxBlocks), isString \in BOOLEAN :
       /\ ~isString => blocks = <<>>
       /\ st = [StIdle EXCEPT !.pc = "called", !.isString = isString,
                              !.blocks = blocks]

StatsSpec == StatsInit /\ [][StCall]_vars

\* -------------------------------------------------------- parseResponse
\* A context is its "## " sections, each by the length of its preview (the
\* first 200 characters without the heading line, trimmed), or not a
\* string; the combined text of completion and context is the number of
\* matches of each theme pattern in it.
MaxSections == 4
MinPreview == 20
MaxCitations == 3
MinHits == 3
MaxThemes == 4
PreviewLengths == {20, 21}
HitCounts == {2, 3}

\* themePatterns, in the order of the object's keys.
ThemeTable ==
  <<"Learning and Education", "Problem Solving", "Mathematics", "Science",
    "Technology", "Communication", "Critical Thinking",
    "Practical Application">>
ThemeNames == {ThemeTable[i] : i \in 1 .. Len(ThemeTable)}

RECURSIVE PreviewsUpTo(_)
PreviewsUpTo(n) ==
  IF n = 0 THEN {<<>>}
  ELSE LET shorter == PreviewsUpTo(n - 1) IN
       shorter \cup {Append(t, l) : t \in shorter, l \in PreviewLengths}

\* The first n elements of a sequence, all of it if it is shorter.
Take(items, n) == SubSeq(items, 1, IF Len(items) > n THEN n ELSE Len(items))

\* extractCitations: a context that is not a string throws at
\* context.split and the catch returns []; otherwise one citation for each
\* section whose preview is longer than 20 characters, the first 3 of them.
ExtractCitations(isString, sections) ==
  IF ~isString THEN <<>>
  ELSE Take(SelectSeq([i \in 1 .. Len(sections) |->
                         [section |-> i, preview |-> sections[i]]],
                      LAMBDA c : c.preview > MinPreview),
            MaxCitations)

\* extractThemes adding every theme whose pattern matches at all.
ExtractThemes_AnyMatch(hits) ==
  Take(SelectSeq(ThemeTable, LAMBDA theme : hits[theme] >= 1), MaxThemes)

\* extractThemes: the themes whose pattern has at least 3 matches, in the
\* order of the table, the first 4 of them.
ExtractThemes(hits) ==
  Take(SelectSeq(ThemeTable, LAMBDA theme : hits[theme] >= MinHits), MaxThemes)

\* parseResponse: neither extractor throws, so the try block returns.
PrCall ==
  /\ pr.pc = "called"
  /\ pr' = [pr EXCEPT !.pc = "returned",
                      !.answer = Trim(pr.response),
                      !.citations = ExtractCitations(pr.isString, pr.sections),
                      !.themes = ExtractThemes(pr.hits)]
  /\ UNCHANGED <<serverVars, lastResp, clientVars, sub, gr, fs, sp, st,
                 tw, mc, tc, pg, lc>>

ParseInit ==
  /\ ServerInit
  /\ apiKey
  /\ ClientInit
  /\ tw = NoCall
  /\ mc = NoCall
  /\ tc = NoCall
  /\ pg = NoCall
  /\ lc = NoCall
  /\ sub = SubIdle
  /\ gr = GrIdle
  /\ fs = FsIdle
  /\ sp = SpIdle
  /\ st = StIdle
  /\ \E response \in LlmCompletions, isString \in BOOLEAN,
        sections \in PreviewsUpTo(MaxSections),
        hits \in [ThemeNames -> HitCounts] :
       /\ ~isString => sections = <<>>
       /\ pr = [PrIdle EXCEPT !.pc = "called", !.response = response,
                              !.isString = isString, !.sections = sections,
                              !.hits = hits]

ParseSpec == ParseInit /\ [][PrCall]_vars

\* ------------------------- two POST /ask bodies that differ in Stats
\* callTheHopper sends question, context, weakConcepts and Stats; the
\* handler destructures the first three.  A context is a JavaScript value;
\* the text of a string context tells its sections.
DifficultyCorpus == "## Areas of Difficulty\n- topic 1 ... - topic 6"
NotesCorpus == "## Notes\n- topic 1 ... - topic 6"
TwinContexts ==
  {JsUndefined, JsString(DifficultyCorpus), JsString(NotesCorpus),
   JsNumber("42")}
\* The Stats field of the body: missing, or the pair of lists the client made.
StatsValues ==
  {JsUndefined, JsArray("[[],[]]"), JsArray("[['topic 9'],['Completed 3 sessions']]")}

\* The sections of a string context.
SectionsOf(context) ==
  IF context.text = DifficultyCorpus
    THEN <<[heading |-> "## Areas of Difficulty", from |-> 1, to |-> 6]>>
  ELSE IF context.text = NotesCorpus
    THEN <<[heading |-> "## Notes", from |-> 1, to |-> 6]>>
  ELSE <<>>

\* `weakConcepts || []`.
WeakConceptsOrEmpty(body) ==
  IF Truthy(body.weakConcepts) THEN body.weakConcepts ELSE JsArray("")

\* A pipeline that takes the Stats of the body when the client sent them.
PipelineInputs_BodyStats(body) ==
  [question |-> body.question,
   context |-> body.context,
   weakConcepts |-> WeakConceptsOrEmpty(body),
   Stats |-> IF Truthy(body.Stats) THEN <<body.Stats>>
             ELSE <<ExtractLearningStats(body.context.type = "string",
                                         SectionsOf(body.context))>>]

\* What processRAGRequest passes to ragService.generateResponse:
\* processedData.Stats is what extractLearningStats read from the context.
PipelineInputs(body) ==
  [question |-> body.question,
   context |-> body.context,
   weakConcepts |-> WeakConceptsOrEmpty(body),
   Stats |-> <<ExtractLearningStats(body.context.type = "string",
                                    SectionsOf(body.context))>>]

\* POST /thehopper/ask on a body: the response code, the record stored and
\* the inputs of the pipeline, none for a rejected body.
HandleBody(body) ==
  IF AskValidates(body)
    THEN [code |-> 200,
          job |-> <<ProcessRAGStart(NewRequest(body.question, body.context,
                                               WeakConceptsOrEmpty(body)))>>,
          fed |-> <<PipelineInputs(body)>>]
    ELSE [code |-> 400, job |-> <<>>, fed |-> <<>>]

\* The server handles the next of the two bodies.
TwHandle ==
  /\ tw.pc = "received"
  /\ LET i == Len(tw.handled) + 1 IN
     tw' = [tw EXCEPT !.handled = Append(@, HandleBody(tw.bodies[i])),
                      !.pc = IF i = Len(tw.bodies) THEN "answered"
                             ELSE "received"]
  /\ UNCHANGED <<serverVars, lastResp, clientVars, sub, gr, fs, sp, st, pr,
                 mc, tc, pg, lc>>

TwinInit ==
  /\ ServerInit
  /\ ClientInit
  /\ sub = SubIdle
  /\ gr = GrIdle
  /\ fs = FsIdle
  /\ sp = SpIdle
  /\ st = StIdle
  /\ pr = PrIdle
  /\ mc = NoCall
  /\ tc = NoCall
  /\ pg = NoCall
  /\ lc = NoCall
  /\ \E q \in QuestionValues, c \in TwinContexts, w \in WeakConceptsValues,
        s1 \in StatsValues, s2 \in StatsValues :
       /\ s1 # s2
       /\ tw = [pc |-> "received",
                bodies |-> <<[question |-> q, context |-> c,
                              weakConcepts |-> w, Stats |-> s1],
                             [question |-> q, context |-> c,
                              weakConcepts |-> w, Stats |-> s2]>>,
                handled |-> <<>>]

TwinSpec == TwinInit /\ [][TwHandle]_vars

\* --------------------------------- findSimilar twice on the same chunks
\* A chunk object is the vector the embedder computes for its text (embed
\* is a function of the text) and its embedding property, <<>> until set.
\* findSimilar awaits one embed call at a time; mc.pos is the chunk whose
\* embedding is awaited, 0 for the query.

\* A loop that does not write doc.embedding.
CacheEmbedding_None(doc, embedding) == doc

\* doc.embedding = embedding.
CacheEmbedding(doc, embedding) == [doc EXCEPT !.embedding = <<embedding>>]

\* The loop over the documents from chunk i on, up to its next await or
\* its end: the embeddings of chunks that carry one are pushed.
RECURSIVE PushCached(_, _, _)
PushCached(docs, embeddings, i) ==
  IF i > Len(docs) \/ docs[i].embedding = <<>>
    THEN [documentEmbeddings |-> embeddings, next |-> i]
    ELSE PushCached(docs, Append(embeddings, docs[i].embedding[1]), i + 1)

\* The scoring, sort and slice of findSimilar; a throw of cosineSimilarity
\* is rethrown.
TopResults(query, embeddings, k) ==
  LET similarities ==
        [i \in 1 .. Len(embeddings) |->
           [index |-> i, score |-> CosineSimilarity(query, embeddings[i])]]
  IN IF \E i \in 1 .. Len(embeddings) : similarities[i].score.kind = "threw"
       THEN [threw |-> TRUE, results |-> <<>>]
       ELSE [threw |-> FALSE,
             results |-> Slice(SortFrom(similarities, 1, <<>>), k)]

\* The embed call findSimilar awaits settles.
McEmbedSettled(ok) ==
  /\ mc.pc = "embedding"
  /\ IF ~ok
       THEN mc' = [mc EXCEPT !.pc = "threw"]
       ELSE LET docs == IF mc.pos = 0 THEN mc.docs
                        ELSE [mc.docs EXCEPT ![mc.pos] =
                                CacheEmbedding(@, @.vector)]
                embeddings == IF mc.pos = 0 THEN <<>>
                              ELSE Append(mc.documentEmbeddings,
                                          mc.docs[mc.pos].vector)
                loop == PushCached(docs, embeddings, mc.pos + 1)
                top == TopResults(mc.query, loop.documentEmbeddings, mc.k)
            IN IF loop.next <= Len(docs)
                 THEN mc' = [mc EXCEPT !.docs = docs, !.pos = loop.next,
                                       !.documentEmbeddings =
                                         loop.documentEmbeddings,
                                       !.calls = @ + 1]
                 ELSE mc' = [mc EXCEPT !.docs = docs,
                                       !.documentEmbeddings =
                                         loop.documentEmbeddings,
                                       !.pc = IF top.threw THEN "threw"
                                              ELSE "returned",
                                       !.returned =
                                         IF top.threw THEN @
                                         ELSE Append(@, top.results)]
  /\ UNCHANGED <<serverVars, lastResp, clientVars, sub, gr, fs, sp, st, pr,
                 tw, tc, pg, lc>>

\* findSimilar is called again with the same query and chunk objects.
McCallAgain ==
  /\ mc.pc = "returned"
  /\ mc.run = 1
  /\ mc' = [mc EXCEPT !.pc = "embedding", !.run = 2, !.pos = 0, !.calls = 1,
                      !.documentEmbeddings = <<>>]
  /\ UNCHANGED <<serverVars, lastResp, clientVars, sub, gr, fs, sp, st, pr,
                 tw, tc, pg, lc>>

MemoInit ==
  /\ ServerInit
  /\ apiKey
  /\ ClientInit
  /\ sub = SubIdle
  /\ gr = GrIdle
  /\ fs = FsIdle
  /\ sp = SpIdle
  /\ st = StIdle
  /\ pr = PrIdle
  /\ tw = NoCall
  /\ tc = NoCall
  /\ pg = NoCall
  /\ lc = NoCall
  /\ \E q \in Vectors, vectors \in DocsUpTo(MaxDocs), k \in Ks :
       mc = [pc |-> "embedding", run |-> 1, query |-> q, k |-> k,
             docs |-> [i \in 1 .. Len(vectors) |->
                         [vector |-> vectors[i], embedding |-> <<>>]],
             pos |-> 0, calls |-> 1, documentEmbeddings |-> <<>>,
             returned |-> <<>>]

MemoNext ==
  \/ \E ok \in BOOLEAN : McEmbedSettled(ok)
  \/ McCallAgain

MemoSpec == MemoInit /\ [][MemoNext]_vars

\* ------------------------------------------- getTopRelevantContext
\* A corpus is whether it has text before its first "## " heading (the
\* "# User Learning Context" title of prepareTheHopperContext) and, for
\* each "## " section, the number of "### " headings in it; or it is not a
\* string.  context.split(/(?=##\s)/g) cuts before every "##" that a blank
\* follows, the one inside "### " too: piece <<i, j>> is the j-th piece of
\* section i, section 0 being the text before the first heading.
MaxTopSections == 5
SubHeadings == {0, 1}

RECURSIVE SubHeadingsUpTo(_)
SubHeadingsUpTo(n) ==
  IF n = 0 THEN {<<>>}
  ELSE LET shorter == SubHeadingsUpTo(n - 1) IN
       shorter \cup {Append(t, h) : t \in shorter, h \in SubHeadings}

\* The pieces of sections i.. of a corpus, in order.
RECURSIVE SectionPieces(_, _)
SectionPieces(sections, i) ==
  IF i > Len(sections) THEN <<>>
  ELSE [j \in 1 .. sections[i] + 1 |-> <<i, j>>]
         \o SectionPieces(sections, i + 1)

\* context.split(/(?=##\s)/g).filter(section => section.trim().length > 0).
SplitSections(preamble, sections) ==
  (IF preamble THEN <<<<0, 1>>>> ELSE <<>>) \o SectionPieces(sections, 1)

\* getTopRelevantContext(context, k): the pieces of the text returned and
\* whether it is the first k pieces joined or the context itself, which it
\* also is when split throws.
GetTopRelevantContext(isString, preamble, sections, k) ==
  LET pieces == SplitSections(preamble, sections) IN
  IF ~isString \/ Len(pieces) <= k
    THEN [pieces |-> pieces, joined |-> FALSE]
    ELSE [pieces |-> SubSeq(pieces, 1, k), joined |-> TRUE]

\* processContext resolves: processedData.context is what
\* getTopRelevantContext(context, 4) returned.
TcProcessed ==
  /\ tc.pc = "submitted"
  /\ tc' = [tc EXCEPT !.pc = "processed",
                      !.forwarded = GetTopRelevantContext(
                                      tc.isString, tc.preamble, tc.sections,
                                      TopK)]
  /\ UNCHANGED <<serverVars, lastResp, clientVars, sub, gr, fs, sp, st, pr,
                 tw, mc, pg, lc>>

\* ragService.generateResponse: whichever way getRelevantContext returns
\* (the context itself, its top chunks joined, the context after a
\* failure), the text of the prompt and of the citations is text of
\* processedData.context.
TcPrompted(how) ==
  /\ tc.pc = "processed"
  /\ tc' = [tc EXCEPT !.pc = "prompted", !.relevant = how,
                      !.prompt = {tc.forwarded.pieces[i] :
                                    i \in 1 .. Len(tc.forwarded.pieces)}]
  /\ UNCHANGED <<serverVars, lastResp, clientVars, sub, gr, fs, sp, st, pr,
                 tw, mc, pg, lc>>

TopInit ==
  /\ ServerInit
  /\ apiKey
  /\ ClientInit
  /\ sub = SubIdle
  /\ gr = GrIdle
  /\ fs = FsIdle
  /\ sp = SpIdle
  /\ st = StIdle
  /\ pr = PrIdle
  /\ tw = NoCall
  /\ mc = NoCall
  /\ pg = NoCall
  /\ lc = NoCall
  /\ \E isString \in BOOLEAN, preamble \in BOOLEAN,
        sections \in SubHeadingsUpTo(MaxTopSections) :
       /\ ~isString => (~preamble /\ sections = <<>>)
       /\ tc = [pc |-> "submitted", isString |-> isString,
                preamble |-> preamble, sections |-> sections,
                forwarded |-> [pieces |-> <<>>, joined |-> FALSE],
                relevant |-> "none", prompt |-> {}]

TopNext ==
  \/ TcProcessed
  \/ \E how \in {"corpus", "ranked", "fallback"} : TcPrompted(how)

TopSpec == TopInit /\ [][TopNext]_vars

\* ---------------------------------------------------------- podcast progress
\* generatePodcast of PodcastPage and generatePodcastAudioWithGemini, followed
\* through one generation.  A progress value is a fraction num/den, so that
\* chunkIndex * 40 / (chunkIndex + 1) and the factor 0.65 = 13/20 are exact.
MaxChunks == 4
ChunkKinds == {"noParts", "audio", "emptyAudio", "badAudio", "text"}

Whole(n) == [num |-> n, den |-> 1]
Leq(a, b) == a.num * b.den <= b.num * a.den

\* 50 + 40 / Math.max(1, chunkIndex + 1): the share falls as chunks arrive.
ChunkProgress_Remaining(chunkIndex) ==
  LET den == IF chunkIndex + 1 > 1 THEN chunkIndex + 1 ELSE 1
  IN  [num |-> 50 * den + 40, den |-> den]

\* 50 + (chunkIndex * 40 / Math.max(1, chunkIndex + 1))
ChunkProgress(chunkIndex) ==
  LET den == IF chunkIndex + 1 > 1 THEN chunkIndex + 1 ELSE 1
  IN  [num |-> 50 * den + chunkIndex * 40, den |-> den]

\* 30 + (progress.progress * 0.65)
PageProgress(progress) ==
  [num |-> 30 * 20 * progress.den + 13 * progress.num,
   den |-> 20 * progress.den]

\* The callback PodcastPage passes to generatePodcastAudio: the library's
\* value is recorded and the page's value derived from it is set.
OnProgress(g, progress) ==
  [g EXCEPT !.lib = Append(@, progress),
            !.page = Append(@, PageProgress(progress))]

\* generatePodcast up to `await generatePodcastScript`.
PgGenerate ==
  /\ pg.pc = "idle"
  /\ pg' = [pg EXCEPT !.pc = "script",
                      !.page = <<Whole(5), Whole(10)>>]
  /\ UNCHANGED <<serverVars, lastResp, clientVars, sub, gr, fs, sp, st, pr,
                 tw, mc, tc, lc>>

\* The script arrives: the page sets 30 and calls generatePodcastAudio, which
\* reports 10 and 30 and awaits generateContentStream.  A rejected script
\* ends in the catch of generatePodcast.
PgScriptSettled(ok) ==
  /\ pg.pc = "script"
  /\ pg' = IF ok
           THEN OnProgress(
                  OnProgress([pg EXCEPT !.pc = "request",
                                        !.page = Append(@, Whole(30))],
                             Whole(10)),
                  Whole(30))
           ELSE [pg EXCEPT !.pc = "failed", !.shown = FALSE]
  /\ UNCHANGED <<serverVars, lastResp, clientVars, sub, gr, fs, sp, st, pr,
                 tw, mc, tc, lc>>

\* generateContentStream settles: 50 is reported before the first chunk.
PgStreamOpened(ok) ==
  /\ pg.pc = "request"
  /\ pg' = IF ok
           THEN OnProgress([pg EXCEPT !.pc = "stream"], Whole(50))
           ELSE [pg EXCEPT !.pc = "failed", !.shown = FALSE]
  /\ UNCHANGED <<serverVars, lastResp, clientVars, sub, gr, fs, sp, st, pr,
                 tw, mc, tc, lc>>

\* One iteration of `for await (const chunk of response)`.  A chunk without
\* parts and a text chunk report nothing; a chunk with inlineData reports
\* after its try block, whether the blob was pushed, was empty or atob threw.
PgChunk(kind) ==
  /\ pg.pc = "stream"
  /\ pg.received < MaxChunks
  /\ LET chunkIndex == IF kind = "audio" THEN pg.chunkIndex + 1
                       ELSE pg.chunkIndex
         g == [pg EXCEPT !.received = @ + 1,
                         !.chunkIndex = chunkIndex,
                         !.skipped = IF kind \in {"emptyAudio", "badAudio"}
                                     THEN @ + 1 ELSE @]
     IN  pg' = IF kind \in {"audio", "emptyAudio", "badAudio"}
               THEN OnProgress(g, ChunkProgress(chunkIndex))
               ELSE g
  /\ UNCHANGED <<serverVars, lastResp, clientVars, sub, gr, fs, sp, st, pr,
                 tw, mc, tc, lc>>

\* The stream rejects in the middle: the catch of the library rethrows and
\* the catch of generatePodcast clears the progress.
PgStreamError ==
  /\ pg.pc = "stream"
  /\ pg' = [pg EXCEPT !.pc = "failed", !.shown = FALSE]
  /\ UNCHANGED <<serverVars, lastResp, clientVars, sub, gr, fs, sp, st, pr,
                 tw, mc, tc, lc>>

\* The stream ends.  Without a pushed chunk the library throws; otherwise it
\* reports 100 and returns, and the page sets 98 when the file is saved and
\* 100 when it is not.
PgStreamEnd ==
  /\ pg.pc = "stream"
  /\ pg' = IF pg.chunkIndex = 0
           THEN [pg EXCEPT !.pc = "failed", !.shown = FALSE]
           ELSE LET g == OnProgress(pg, Whole(100))
                IN  IF pg.enableAudioSave
                    THEN [g EXCEPT !.pc = "saving",
                                   !.page = Append(@, Whole(98))]
                    ELSE [g EXCEPT !.pc = "ready",
                                   !.page = Append(@, Whole(100))]
  /\ UNCHANGED <<serverVars, lastResp, clientVars, sub, gr, fs, sp, st, pr,
                 tw, mc, tc, lc>>

\* The one second delay after saving is over.
PgSaved ==
  /\ pg.pc = "saving"
  /\ pg' = [pg EXCEPT !.pc = "ready", !.page = Append(@, Whole(100))]
  /\ UNCHANGED <<serverVars, lastResp, clientVars, sub, gr, fs, sp, st, pr,
                 tw, mc, tc, lc>>

\* The timer of three seconds clears the progress.
PgCleared ==
  /\ pg.pc = "ready"
  /\ pg' = [pg EXCEPT !.pc = "cleared", !.shown = FALSE]
  /\ UNCHANGED <<serverVars, lastResp, clientVars, sub, gr, fs, sp, st, pr,
                 tw, mc, tc, lc>>

PodcastInit ==
  /\ ServerInit
  /\ apiKey
  /\ ClientInit
  /\ sub = SubIdle
  /\ gr = GrIdle
  /\ fs = FsIdle
  /\ sp = SpIdle
  /\ st = StIdle
  /\ pr = PrIdle
  /\ tw = NoCall
  /\ mc = NoCall
  /\ tc = NoCall
  /\ lc = NoCall
  /\ \E enableAudioSave \in BOOLEAN :
       pg = [pc |-> "idle", enableAudioSave |-> enableAudioSave,
             shown |-> TRUE, received |-> 0, chunkIndex |-> 0,
             skipped |-> 0, lib |-> <<>>, page |-> <<>>]

PodcastNext ==
  \/ PgGenerate
  \/ \E ok \in BOOLEAN : PgScriptSettled(ok)
  \/ \E ok \in BOOLEAN : PgStreamOpened(ok)
  \/ \E kind \in ChunkKinds : PgChunk(kind)
  \/ PgStreamError
  \/ PgStreamEnd
  \/ PgSaved
  \/ PgCleared

PodcastSpec == PodcastInit /\ [][PodcastNext]_vars

\* -------------------------------------------------------- LearningComponent
\* The component's state through its loads.  topics and subtopics are the
\* lengths of topicsToLearn and of the subtopics array; at most one awaited
\* call is in flight, because every control that starts one is rendered
\* only while loading is false.
MaxTopics == 3
MaxSubtopics == 3

\* loadContentForSubtopic up to `await generateSubtopicContent`.
LoadContentForSubtopic(c) ==
  [c EXCEPT !.loading = TRUE, !.pc = "content"]

\* The effect on [currentTopicIndex, topicsToLearn]: loadTopicSubtopics up to
\* `await generateSubtopics`.
LcEffect ==
  /\ lc.pc = "effect"
  /\ lc' = [lc EXCEPT !.loading = TRUE, !.showOptions = FALSE,
                      !.pc = "subtopics"]
  /\ UNCHANGED <<serverVars, lastResp, clientVars, sub, gr, fs, sp, st, pr,
                 tw, mc, tc, pg>>

\* generateSubtopics settles.  With an array the subtopics are stored and
\* the content of the first one is requested; a rejection is logged by the
\* catch of loadTopicSubtopics, which sets no state.
LcSubtopicsSettled(ok, n) ==
  /\ lc.pc = "subtopics"
  /\ lc' = IF ok
           THEN LoadContentForSubtopic(
                  [lc EXCEPT !.subtopics = n, !.currentSubtopicIndex = 0])
           ELSE [lc EXCEPT !.pc = "rendered"]
  /\ UNCHANGED <<serverVars, lastResp, clientVars, sub, gr, fs, sp, st, pr,
                 tw, mc, tc, pg>>

\* generateSubtopicContent settles: the content is stored when it resolved,
\* and finally loading is set to false.
LcContentSettled(ok) ==
  /\ lc.pc = "content"
  /\ lc' = [lc EXCEPT !.content = IF ok THEN "generated" ELSE @,
                      !.loading = FALSE,
                      !.pc = "rendered"]
  /\ UNCHANGED <<serverVars, lastResp, clientVars, sub, gr, fs, sp, st, pr,
                 tw, mc, tc, pg>>

\* handleGotIt: the next subtopic, else the next topic, else onComplete.
LcGotIt ==
  /\ lc.pc = "rendered"
  /\ ~lc.loading
  /\ lc' = IF lc.currentSubtopicIndex < lc.subtopics - 1
           THEN LoadContentForSubtopic(
                  [lc EXCEPT !.showOptions = FALSE,
                             !.currentSubtopicIndex = @ + 1])
           ELSE IF lc.currentTopicIndex < lc.topics - 1
           THEN [lc EXCEPT !.showOptions = FALSE,
                           !.currentTopicIndex = @ + 1,
                           !.pc = "effect"]
           ELSE [lc EXCEPT !.showOptions = FALSE, !.pc = "complete"]
  /\ UNCHANGED <<serverVars, lastResp, clientVars, sub, gr, fs, sp, st, pr,
                 tw, mc, tc, pg>>

\* handleDidntUnderstand
LcDidntUnderstand ==
  /\ lc.pc = "rendered"
  /\ ~lc.loading
  /\ lc' = [lc EXCEPT !.showOptions = TRUE]
  /\ UNCHANGED <<serverVars, lastResp, clientVars, sub, gr, fs, sp, st, pr,
                 tw, mc, tc, pg>>

\* handleRephrase up to `await rephraseContent`.
LcRephrase ==
  /\ lc.pc = "rendered"
  /\ ~lc.loading
  /\ lc' = [lc EXCEPT !.loading = TRUE, !.showOptions = FALSE,
                      !.pc = "rephrase"]
  /\ UNCHANGED <<serverVars, lastResp, clientVars, sub, gr, fs, sp, st, pr,
                 tw, mc, tc, pg>>

\* rephraseContent settles.
LcRephraseSettled(ok) ==
  /\ lc.pc = "rephrase"
  /\ lc' = [lc EXCEPT !.content = IF ok THEN "rephrased" ELSE @,
                      !.loading = FALSE,
                      !.pc = "rendered"]
  /\ UNCHANGED <<serverVars, lastResp, clientVars, sub, gr, fs, sp, st, pr,
                 tw, mc, tc, pg>>

\* After the first render: loading starts true, and the effect is pending
\* when there is a topic to learn.
LearnInit ==
  /\ ServerInit
  /\ apiKey
  /\ ClientInit
  /\ sub = SubIdle
  /\ gr = GrIdle
  /\ fs = FsIdle
  /\ sp = SpIdle
  /\ st = StIdle
  /\ pr = PrIdle
  /\ tw = NoCall
  /\ mc = NoCall
  /\ tc = NoCall
  /\ pg = NoCall
  /\ \E topics \in 0 .. MaxTopics :
       lc = [pc |-> IF topics > 0 THEN "effect" ELSE "empty",
             topics |-> topics, currentTopicIndex |-> 0,
             subtopics |-> 0, currentSubtopicIndex |-> 0,
             content |-> "none", loading |-> TRUE, showOptions |-> FALSE]

LcSettle ==
  \/ \E ok \in BOOLEAN, n \in 0 .. MaxSubtopics : LcSubtopicsSettled(ok, n)
  \/ \E ok \in BOOLEAN : LcContentSettled(ok)
  \/ \E ok \in BOOLEAN : LcRephraseSettled(ok)

LearnNext ==
  \/ LcEffect
  \/ LcSettle
  \/ LcGotIt
  \/ LcDidntUnderstand
  \/ LcRephrase

\* The effect runs and every awaited call settles; the user's clicks are
\* not required to happen.
LearnSpec ==
  LearnInit /\ [][LearnNext]_vars /\ WF_vars(LcEffect) /\ WF_vars(LcSettle)

\* ------------------------------------------------------------------ claims
\* The messages processRAGRequest can catch.
ThrownMessages ==
  {InitFailedMsg, EmptyCompletionMsg} \cup {RagFailed(GroqFailed(e)) : e \in LlmErrors}

\* C1: in every reachable state, for every job of the store, result is set
\* if and only if status is completed, error is set if and only if status
\* is failed, and result and error are never both set.
C1_ResultErrorMatchStatus ==
  \A id \in DOMAIN store :
    /\ (store[id].result # <<>>) <=> (store[id].status = "completed")
    /\ (store[id].error # Undefined) <=> (store[id].status = "failed")
    /\ ~(store[id].result # <<>> /\ store[id].error # Undefined)

\* C2: a job whose processRAGRequest task has thrown has status failed,
\* its error field holds the message thrown, and it has no result.
C2_ThrowMarksFailed ==
  \A id \in Ids :
    pc[id] = "threw" =>
      /\ id \in DOMAIN store
      /\ store[id].status = "failed"
      /\ store[id].error \in ThrownMessages
      /\ store[id].result = <<>>

\* C3: a job's status changes only from processing to completed or from
\* processing to failed, and the record of a completed or failed job does
\* not change while it stays in the store.
C3_OnlyTerminalTransitions ==
  [][\A id \in DOMAIN store \cap DOMAIN store' :
       /\ store'[id].status # store[id].status =>
            /\ store[id].status = "processing"
            /\ store'[id].status \in {"completed", "failed"}
       /\ store[id].status # "processing" => store'[id] = store[id]]_vars

C5_FailureSeenStopsPolling ==
  ~(/\ cpc = "wait"
    /\ cjob \in DOMAIN store
    /\ store[cjob].error # Undefined
    /\ cseen = store[cjob].status)

\* C6: callTheHopper terminates.  It issues at most maxAttempts status
\* polls, each iteration of the loop leaves it or adds exactly one to
\* attempts (a network error included), the timeout error is thrown exactly
\* when attempts reaches maxAttempts, and a call that is polling eventually
\* returns or throws.
C6_PollingTerminates ==
  /\ [](/\ polls <= maxAttempts
        /\ attempts <= maxAttempts
        /\ cpc = "poll" => polls = attempts
        /\ cpc \in {"wait", "getResult", "getFailed"} => polls = attempts + 1
        /\ attempts = maxAttempts <=>
             (cpc = "threw" /\ cerr = Wrapped(TimedOutMsg)))
  /\ [][attempts' = attempts \/ (cpc = "wait" /\ attempts' = attempts + 1)]_vars
  /\ (cpc = "poll") ~> (cpc \in {"returned", "threw"})

\* The client has given up after maxAttempts polls of a job still processing.
C6_Witness ==
  /\ cpc = "threw"
  /\ cerr = Wrapped(TimedOutMsg)
  /\ polls = maxAttempts
  /\ cjob \in DOMAIN store
  /\ store[cjob].status = "processing"

\* C7: the message recorded on a job that failed is what the status or the
\* result endpoint returns for it.
C7_FailureMessageReturned ==
  \A id \in DOMAIN store :
    store[id].error # Undefined =>
      /\ store[id].error \in ThrownMessages
      /\ \E resp \in {StatusResponse(store, "thehopper", id),
                      ResultResponse(store, "thehopper", id)} :
           store[id].error \in {resp.error, resp.message}

\* C8: a job that reached a terminal status is in the store for at most
\* the eviction delay; an id that is not in the store is answered 404.
C8_TerminalJobsEvicted ==
  /\ \A id \in DOMAIN store : Terminal(store[id]) => age[id] <= EvictDelay
  /\ \A id \in LookupIds \ DOMAIN store :
       /\ StatusResponse(store, "thehopper", id).code = 404
       /\ ResultResponse(store, "thehopper", id).code = 404

\* C9: at most one initialization of the embedding model is in flight at
\* any time and at most one pipeline is ever created.
C9_SingleInitialization ==
  /\ Cardinality({id \in Ids : pc[id] = "embInit"}) <= 1
  /\ embedder <= 1

\* C10: when POST /ask sends the response with the requestId, the job is
\* in the store, its status is not terminal and its processRAGRequest task
\* is still suspended at its first await.
C10_AskDoesNotWait ==
  \A id \in Ids :
    lastResp = AskAccepted(id) =>
      /\ id \in DOMAIN store
      /\ ~Terminal(store[id])
      /\ store[id].result = <<>>
      /\ pc[id] = "ctx"

\* A requestId has just been returned while the embedding model is not
\* initialized yet, so everything the pipeline does is still ahead.
C10_Witness ==
  /\ lastResp = AskAccepted(1)
  /\ micro = 1
  /\ ~embInit

\* C11: the status and result endpoints leave the job store unchanged, and
\* the record of a job changes only in a step of that job's own
\* processRAGRequest task, which changes the record of no other job.
C11_StoreFrame ==
  [][/\ lastResp'.endpoint \in {"status", "result"} => store' = store
     /\ \A id \in DOMAIN store \cap DOMAIN store' :
          store'[id] # store[id] =>
            /\ pc'[id] # pc[id]
            /\ \A other \in (DOMAIN store \cap DOMAIN store') \ {id} :
                 /\ store'[other] = store[other]
                 /\ pc'[other] = pc[other]]_vars

\* The status of a completed job has just been read while another job is
\* waiting for its Groq call.
C11_Witness ==
  /\ DOMAIN store = {1, 2}
  /\ lastResp = StatusResponse(store, "thehopper", 1)
  /\ lastResp.status = "completed"
  /\ pc[2] = "llm"

\* C12: a POST /ask without question or without context is answered 400
\* with success false and changes nothing on the server: no stored job lacks
\* its question or its context, an id that was never issued is answered
\* 404, and the step that sends the rejection creates no job and starts no
\* task.
C12_RejectedAskCreatesNothing ==
  /\ [](/\ \A id \in DOMAIN store :
             store[id].question # "" /\ store[id].context # ""
        /\ \A id \in LookupIds :
             (id = 0 \/ id >= nextId) =>
               StatusResponse(store, "thehopper", id).code = 404
        /\ (lastResp.endpoint = "ask" /\ lastResp.id = 0) =>
             (lastResp.code = 400 /\ ~lastResp.success))
  /\ [][lastResp' = AskRejected => UNCHANGED serverVars]_vars

\* A submission has just been rejected while an earlier job is in flight.
C12_Witness ==
  /\ lastResp = AskRejected
  /\ nextId = 2
  /\ pc[1] = "llm"

\* A field that is present but of the wrong type.
Malformed(body) ==
  \/ body.question.type \notin {"undefined", "string"}
  \/ body.context.type \notin {"undefined", "string"}
  \/ body.weakConcepts.type \notin {"undefined", "array"}

\* C13: a body whose question or context is present but not a string, or
\* whose weakConcepts is present but not an array, is answered with a 4xx
\* code and no job is created for it.
C13_MalformedRejected ==
  (sub.pc = "answered" /\ Malformed(sub)) =>
    /\ sub.code \in 400 .. 499
    /\ ~sub.created

\* C14: a status or result lookup of an id that is not in the store is
\* answered 404 with success false, under either service, and the step
\* that answers it leaves the store unchanged.
C14_UnknownIdNotFound ==
  /\ [](\A id \in LookupIds \ DOMAIN store, s \in Services :
          /\ StatusResponse(store, s, id).code = 404
          /\ ~StatusResponse(store, s, id).success
          /\ ResultResponse(store, s, id).code = 404
          /\ ~ResultResponse(store, s, id).success)
  /\ [][(/\ lastResp'.endpoint \in {"status", "result"}
         /\ lastResp'.id \notin DOMAIN store) =>
          /\ lastResp'.code = 404
          /\ ~lastResp'.success
          /\ store' = store]_vars

\* The result of a job that has been evicted has just been asked for.
C14_Witness ==
  /\ lastResp.endpoint = "result"
  /\ lastResp.code = 404
  /\ lastResp.id = 1
  /\ nextId > 1
  /\ 1 \notin DOMAIN store

\* C15 as stated: whatever the service of the path, the result endpoint
\* answers a known job with success true if and only if its status is
\* completed, and a job in any other status with 202, success false, the
\* job's status and no answer.
C15_ResultIffCompleted ==
  \A id \in DOMAIN store, s \in Services :
    LET resp == ResultResponse(store, s, id) IN
    /\ resp.success <=> store[id].status = "completed"
    /\ store[id].status # "completed" =>
         /\ resp.code = 202
         /\ resp.status = store[id].status
         /\ resp.answer = Undefined

\* C15 amended: looked up under the service it was submitted to, a known
\* job is answered with success true and its answer if and only if its
\* status is completed, and otherwise with 202, success false, the job's
\* status and no answer; looked up under another service it is answered
\* 400 with success false and no answer, whatever its status.
C15_ResultIffCompletedOwnService ==
  \A id \in DOMAIN store, s \in Services :
    LET resp == ResultResponse(store, s, id) IN
    IF s = store[id].service
      THEN /\ resp.success <=> store[id].status = "completed"
           /\ store[id].status = "completed" =>
                /\ resp.code = 200
                /\ resp.answer = store[id].result[1].answer
           /\ store[id].status # "completed" =>
                /\ resp.code = 202
                /\ resp.status = store[id].status
                /\ resp.answer = Undefined
      ELSE /\ resp.code = 400
           /\ ~resp.success
           /\ resp.answer = Undefined

\* The result of a completed job has just been asked for under the wrong
\* service.
C15_Witness ==
  /\ lastResp.endpoint = "result"
  /\ lastResp.code = 400
  /\ lastResp.id \in DOMAIN store
  /\ store[lastResp.id].status = "completed"

\* C16: a job whose task leaves the initialization of the embedding model
\* without a pipeline, or leaves findSimilar without ranked chunks, has
\* thrown and has status failed.
C16_EmbeddingFailureAborts ==
  [][\A id \in Ids :
       (\/ pc[id] = "embInit" /\ pc'[id] # "embInit" /\ embedder' = embedder
        \/ pc[id] = "embed" /\ pc'[id] # "embed" /\ relevant'[id] # "ranked")
       => /\ pc'[id] = "threw"
          /\ store'[id].status = "failed"]_vars

\* C17: no job fails with the error of the context processor, and a job
\* for which getRelevantContext caught a failure of the chunker or of the
\* ranker is still processing, waits for its Groq call and can complete.
C17_LocalFailuresRecovered ==
  \A id \in DOMAIN store :
    /\ store[id].error \in {Undefined} \cup ThrownMessages
    /\ relevant[id] = "fallback" =>
         /\ pc[id] = "llm"
         /\ store[id].status = "processing"
         /\ store[id].progress = 30
         /\ micro = 0 => ENABLED LlmDone(id, "an answer")

\* The ranker has failed for the second job, which goes on with the whole
\* corpus after the first job, ranked, has completed.
C17_Witness ==
  /\ DOMAIN store = {1, 2}
  /\ relevant[2] = "fallback"
  /\ pc[2] = "llm"
  /\ store[1].status = "completed"

\* C18: a job whose Groq call failed or returned nothing is terminal, not
\* completed and has no result, and no result stored or returned has an
\* empty answer.
C18_EmptyCompletionAborts ==
  \A id \in DOMAIN store :
    /\ store[id].error \in ThrownMessages \ {InitFailedMsg} =>
         /\ Terminal(store[id])
         /\ store[id].status # "completed"
         /\ store[id].result = <<>>
    /\ store[id].result # <<>> => store[id].result[1].answer # ""
    /\ ResultResponse(store, "thehopper", id).answer # ""

\* C19: getRelevantContext never throws, and a call in which the chunker,
\* an embedding or the ranking failed returns the corpus it was given.
C19_NeverThrows ==
  /\ gr.pc # "threw"
  /\ (gr.pc = "returned" /\ gr.failed) => gr.result = "corpus"
  /\ (gr.pc = "returned" /\ gr.result = "ranked") =>
       (~gr.failed /\ gr.calls = gr.chunks + 1)

\* The embedding of the second chunk has failed and the corpus was returned.
C19_Witness ==
  /\ gr.pc = "returned"
  /\ gr.failed
  /\ gr.calls = 3
  /\ gr.result = "corpus"

\* C20: a call on a corpus that splitText(context, 1000, 200) cuts into at
\* most k chunks returns the corpus and issues no embedding call.
C20_FewChunksUnchanged ==
  (/\ gr.pc \notin {"idle", "called"}
   /\ gr.isString
   /\ Len(SplitText(gr.sentences, ChunkSize, Overlap)) <= gr.k) =>
    /\ gr.pc = "returned"
    /\ gr.result = "corpus"
    /\ gr.calls = 0
    /\ ~gr.failed

\* A corpus of exactly k = 4 chunks has been returned without an embedding.
C20_Witness ==
  /\ gr.pc = "returned"
  /\ gr.k = 4
  /\ Len(SplitText(gr.sentences, ChunkSize, Overlap)) = 4
  /\ gr.result = "corpus"
  /\ gr.calls = 0

\* C21: the results of findSimilar are in order of non-increasing score,
\* results of equal score in the order of their chunk index, each with the
\* cosine similarity of its chunk to the query, and for k >= 0 no chunk
\* left out scores higher than one returned.
C21_OrderedByScore ==
  fs.pc = "returned" =>
    /\ \A i \in 1 .. Len(fs.results) :
         /\ fs.results[i].index \in 1 .. Len(fs.docs)
         /\ fs.results[i].score =
              CosineSimilarity(fs.query, fs.docs[fs.results[i].index])
    /\ \A i, j \in 1 .. Len(fs.results) :
         i < j =>
           /\ ~Greater(fs.results[j].score, fs.results[i].score)
           /\ ~Greater(fs.results[i].score, fs.results[j].score) =>
                fs.results[i].index < fs.results[j].index
    /\ fs.k >= 0 =>
         \A d \in 1 .. Len(fs.docs), i \in 1 .. Len(fs.results) :
           Greater(CosineSimilarity(fs.query, fs.docs[d]), fs.results[i].score)
             => \E j \in 1 .. Len(fs.results) : fs.results[j].index = d

\* Three chunks were ranked: the second scores highest, the first and the
\* third tie and come back in their original order.
C21_Witness ==
  /\ fs.pc = "returned"
  /\ Len(fs.results) = 3
  /\ fs.results[1].index = 2
  /\ fs.results[2].index = 1
  /\ fs.results[3].index = 3
  /\ Greater(fs.results[1].score, fs.results[2].score)

\* C22: findSimilar returns exactly min(max(k, 0), chunks.length) results,
\* for every integer k.
C22_KClamped ==
  fs.pc = "returned" =>
    LET n == Len(fs.docs)
        k0 == IF fs.k < 0 THEN 0 ELSE fs.k
    IN Len(fs.results) = IF k0 > n THEN n ELSE k0

\* C23: cosineSimilarity of two vectors of the same length is a number,
\* never NaN and never an error, and it is 0 when either vector has norm 0;
\* findSimilar throws only on vectors of different lengths.
C23_ZeroNormIsZero ==
  /\ fs.pc \in {"returned", "threw"} =>
       \A i \in 1 .. Len(fs.docs) :
         Len(fs.docs[i]) = Len(fs.query) =>
           /\ fs.scores[i].kind = "number"
           /\ fs.scores[i].den > 0
           /\ (SumProducts(fs.query, fs.query, 1) = 0
               \/ SumProducts(fs.docs[i], fs.docs[i], 1) = 0)
                => fs.scores[i] = ZeroScore
  /\ fs.pc = "threw" =>
       \E i \in 1 .. Len(fs.docs) : Len(fs.docs[i]) # Len(fs.query)

\* A query of norm above 0 was scored against a zero vector and another.
C23_Witness ==
  /\ fs.pc = "returned"
  /\ fs.query = <<1, 1>>
  /\ Len(fs.docs) = 2
  /\ fs.docs[1] = <<0, 0>>
  /\ fs.scores[1] = ZeroScore
  /\ fs.scores[2] # ZeroScore

\* Sentences a to b joined the way splitText joins them.
RECURSIVE JoinSentences(_, _, _)
JoinSentences(sentences, a, b) ==
  IF a > b THEN <<>>
  ELSE IF a = b THEN Sentence(a, sentences[a])
  ELSE Sentence(a, sentences[a]) \o <<FullStop, Blank>>
         \o JoinSentences(sentences, a + 1, b)

\* The last n characters of a text (all of it if it is shorter).
Trailing(text, n) ==
  SubSeq(text, IF Len(text) > n THEN Len(text) - n + 1 ELSE 1, Len(text))

\* currentChunk of chunk j: its text without the closing full stop.
Current(j) == SubSeq(sp.chunks[j], 1, Len(sp.chunks[j]) - 1)

\* C24: every chunk has at most chunkSize characters, unless it is one
\* sentence that is itself longer than chunkSize.
C24_ChunkSizeBound ==
  sp.pc = "returned" =>
    \A j \in 1 .. Len(sp.chunks) :
      \/ Len(sp.chunks[j]) <= sp.chunkSize
      \/ \E i \in 1 .. Len(sp.sentences) :
           /\ sp.sentences[i] > sp.chunkSize
           /\ Current(j) = Sentence(i, sp.sentences[i])

\* C25: with overlap > 0, every chunk that follows a chunk closed on
\* overflow begins with the trailing `overlap` characters of that chunk
\* (all of it if it is shorter), taken before its closing full stop.
C25_OverlapCarried ==
  (sp.pc = "returned" /\ sp.overlap > 0) =>
    \A j \in 1 .. Len(sp.chunks) - 1 :
      LET carried == Trailing(Current(j), sp.overlap) IN
      /\ Len(sp.chunks[j + 1]) >= Len(carried)
      /\ SubSeq(sp.chunks[j + 1], 1, Len(carried)) = carried

\* C26 as stated: every chunk is whole consecutive sentences joined and
\* closed by a full stop, the chunks hold the sentences of the text in
\* order, each once, and a sentence longer than chunkSize is a chunk of
\* its own.
C26_WholeSentencesOnly ==
  sp.pc = "returned" =>
    LET m == Len(sp.chunks)
        n == Len(sp.sentences)
        first(j) == sp.chunks[j][1][1]
        last(j) == sp.chunks[j][Len(sp.chunks[j]) - 1][1]
    IN /\ (m = 0) <=> (n = 0)
       /\ \A j \in 1 .. m :
            /\ first(j) \in 1 .. n
            /\ last(j) \in 1 .. n
            /\ sp.chunks[j] =
                 JoinSentences(sp.sentences, first(j), last(j)) \o <<FullStop>>
            /\ first(j) = IF j = 1 THEN 1 ELSE last(j - 1) + 1
            /\ j = m => last(j) = n
            /\ \A i \in first(j) .. last(j) :
                 sp.sentences[i] > sp.chunkSize => first(j) = last(j)

\* What chunk j carries over from chunk j - 1: nothing for the first chunk
\* and after a chunk of at most `overlap` characters.
Carried(j) ==
  IF j > 1 /\ sp.overlap > 0 /\ Len(Current(j - 1)) > sp.overlap
    THEN Trailing(Current(j - 1), sp.overlap) \o <<FullStop, Blank>>
    ELSE <<>>

\* C26 amended: every chunk is what it carries over from the chunk before
\* it, which may begin inside a sentence, followed by whole consecutive
\* sentences joined and closed by a full stop; after the carried parts the
\* chunks hold the sentences of the text in order, each once; and a
\* sentence longer than chunkSize is the only whole sentence of its chunk.
C26_WholeSentencesAfterOverlap ==
  sp.pc = "returned" =>
    LET m == Len(sp.chunks)
        n == Len(sp.sentences)
        first(j) == sp.chunks[j][Len(Carried(j)) + 1][1]
        last(j) == sp.chunks[j][Len(sp.chunks[j]) - 1][1]
    IN /\ (m = 0) <=> (n = 0)
       /\ \A j \in 1 .. m :
            /\ Len(sp.chunks[j]) > Len(Carried(j)) + 1
            /\ first(j) \in 1 .. n
            /\ last(j) \in 1 .. n
            /\ sp.chunks[j] =
                 Carried(j) \o JoinSentences(sp.sentences, first(j), last(j))
                   \o <<FullStop>>
            /\ first(j) = IF j = 1 THEN 1 ELSE last(j - 1) + 1
            /\ j = m => last(j) = n
            /\ \A i \in first(j) .. last(j) :
                 sp.sentences[i] > sp.chunkSize => first(j) = last(j)

\* A sentence longer than chunkSize came second: its chunk begins with the
\* last characters of the first chunk, and a third chunk follows.
C26_Witness ==
  /\ sp.pc = "returned"
  /\ sp.overlap = 2
  /\ sp.sentences = <<3, 9, 2>>
  /\ Len(sp.chunks) = 3
  /\ SubSeq(sp.chunks[2], 1, 2) = <<<<1, 2>>, <<1, 3>>>>

\* C27: each of the two lists extractLearningStats returns has at most 10
\* entries and no two equal entries.
C27_StatsBoundedDistinct ==
  st.pc = "returned" =>
    \A list \in {st.areasOfDifficulty, st.learningProgressSummary} :
      /\ Len(list) <= StatsLimit
      /\ \A i, j \in 1 .. Len(list) : i # j => list[i] # list[j]

\* Six topics under Areas of Difficulty and nine flashcard questions, three
\* of them on the same topics: twelve topics are cut to ten.
C27_Witness ==
  /\ st.pc = "returned"
  /\ Len(st.blocks) = 2
  /\ st.blocks[1] = [heading |-> "## Areas of Difficulty", from |-> 1, to |-> 6]
  /\ st.blocks[2] = [heading |-> "## Generated Flashcards", from |-> 4, to |-> 12]
  /\ Len(st.areasOfDifficulty) = StatsLimit
  /\ st.areasOfDifficulty[7] = Topic(7)

\* C28: for a corpus none of whose sections has a recognized heading, and
\* for one that is not a string, the extraction returns two empty lists;
\* it returns for every corpus.
C28_NoHeadingsEmptyStats ==
  /\ st.pc \in {"idle", "called", "returned"}
  /\ (/\ st.pc = "returned"
      /\ \/ ~st.isString
         \/ \A i \in 1 .. Len(st.blocks) : st.blocks[i].heading = "## Notes") =>
       /\ st.areasOfDifficulty = <<>>
       /\ st.learningProgressSummary = <<>>

\* Two sections of notes, with bullets, gave no statistics.
C28_Witness ==
  /\ st.pc = "returned"
  /\ st.isString
  /\ Len(st.blocks) = 2
  /\ \A i \in 1 .. 2 : st.blocks[i].heading = "## Notes" /\ st.blocks[i].to = 12
  /\ st.areasOfDifficulty = <<>>
  /\ st.learningProgressSummary = <<>>

\* C29: parseResponse returns, and when the extraction of the citations
\* failed inside it the result is the trimmed completion with no citations
\* and no themes.
C29_ParseFailureDefaults ==
  /\ pr.pc # "threw"
  /\ (pr.pc = "returned" /\ ~pr.isString) =>
       /\ pr.answer = Trim(pr.response)
       /\ pr.citations = <<>>
       /\ pr.themes = <<>>

\* C30: the parsed result has at most 3 citations, each of a section of
\* the context with a preview of more than 20 characters, and at most 4
\* themes, each a theme of the table with at least 3 matches.
C30_CitationsThemesBounded ==
  pr.pc = "returned" =>
    /\ Len(pr.citations) <= MaxCitations
    /\ \A i \in 1 .. Len(pr.citations) :
         /\ pr.citations[i].section \in 1 .. Len(pr.sections)
         /\ pr.sections[pr.citations[i].section] > MinPreview
    /\ Len(pr.themes) <= MaxThemes
    /\ \A i \in 1 .. Len(pr.themes) :
         /\ pr.themes[i] \in ThemeNames
         /\ pr.hits[pr.themes[i]] >= MinHits

\* Four sections qualify for a citation and six themes have three matches:
\* three citations and four themes are returned.
C30_Witness ==
  /\ pr.pc = "returned"
  /\ pr.sections = <<21, 21, 21, 21>>
  /\ Cardinality({theme \in ThemeNames : pr.hits[theme] >= MinHits}) = 6
  /\ Len(pr.citations) = MaxCitations
  /\ Len(pr.themes) = MaxThemes

\* C31: two submissions that differ only in the Stats field of the body are
\* answered alike, create equal job records and give the pipeline equal
\* inputs, the Stats among them being those extracted from the context.
C31_StatsRecomputed ==
  tw.pc = "answered" =>
    /\ tw.bodies[1].Stats # tw.bodies[2].Stats
    /\ tw.handled[1] = tw.handled[2]
    /\ \A i \in 1 .. 2 :
         tw.handled[i].code = 200 =>
           tw.handled[i].fed[1].Stats[1] =
             ExtractLearningStats(tw.bodies[i].context.type = "string",
                                  SectionsOf(tw.bodies[i].context))

\* Two accepted submissions of the corpus with six difficulties, one with
\* Stats of the client's own: both jobs get the six topics.
C31_Witness ==
  /\ tw.pc = "answered"
  /\ tw.bodies[1].context = JsString(DifficultyCorpus)
  /\ tw.bodies[1].Stats = JsArray("[['topic 9'],['Completed 3 sessions']]")
  /\ tw.bodies[2].Stats = JsUndefined
  /\ tw.handled[1].code = 200
  /\ Len(tw.handled[2].fed[1].Stats[1].areasOfDifficulty) = 6

\* C32: the progress of a stored job is 10 while its context is processed
\* and 30 from there to the end of the Groq call; it is 100 exactly when
\* the status is completed; no step lowers it, it moves only from 10 to 30
\* and from 30 to 100; and a job that failed keeps the progress of the
\* stage it failed in, 30 unless processContext threw.
C32_ProgressStages ==
  [][\A id \in DOMAIN store' :
       LET r == store'[id] IN
       /\ pc'[id] = "ctx" => r.progress = 10
       /\ pc'[id] \in {"embInit", "embed", "llm"} => r.progress = 30
       /\ (r.progress = 100) <=> (r.status = "completed")
       /\ r.status = "error" =>
            r.progress = IF r.error = ProcessContextFailedMsg THEN 10 ELSE 30
       /\ id \in DOMAIN store =>
            /\ r.progress >= store[id].progress
            /\ <<store[id].progress, r.progress>> \in
                 {<<10, 10>>, <<10, 30>>, <<30, 30>>, <<30, 100>>, <<100, 100>>}
            /\ Terminal(store[id]) => r.progress = store[id].progress]_vars

\* One job completed at progress 100 and another failed in the Groq call,
\* left at progress 30.
C32_Witness ==
  /\ DOMAIN store = {1, 2}
  /\ store[1].status = "completed"
  /\ store[1].progress = 100
  /\ store[2].status = "error"
  /\ store[2].error = RagFailed(GroqFailed("Connection error."))
  /\ store[2].progress = 30

\* C33: once the task of the job whose upstream calls never return is
\* suspended at one of them, the job is in the store with status processing
\* and without an eviction timer, at the same await, for ever after.
C33_HungJobStaysProcessing ==
  [](pc[HungJob] \in Awaiting =>
       [](/\ HungJob \in DOMAIN store
          /\ store[HungJob].status = "processing"
          /\ timer[HungJob] = -1
          /\ pc[HungJob] \in Awaiting))

\* The hung job waits for the Groq call two hours after an earlier job
\* completed and was evicted.
C33_Witness ==
  /\ pc[HungJob] = "llm"
  /\ store[HungJob].status = "processing"
  /\ pc[1] = "done"
  /\ 1 \notin DOMAIN store

\* C34: after a findSimilar call has returned every chunk carries its
\* embedding; the call made again with the same query and chunks issues
\* one embed call, for the query, and returns what the first call returned.
C34_EmbeddingsMemoized ==
  /\ (mc.pc = "returned" \/ mc.run = 2) =>
       \A i \in 1 .. Len(mc.docs) :
         mc.docs[i].embedding = <<mc.docs[i].vector>>
  /\ mc.run = 2 => mc.calls = 1
  /\ (mc.run = 2 /\ mc.pc = "returned") =>
       /\ Len(mc.returned) = 2
       /\ mc.returned[2] = mc.returned[1]

\* The second call on three chunks returned the two top chunks after one
\* embed call; the first had made four.
C34_Witness ==
  /\ mc.pc = "returned"
  /\ mc.run = 2
  /\ Len(mc.docs) = 3
  /\ mc.calls = 1
  /\ Len(mc.returned[2]) = 2
  /\ mc.returned[2][1].index = 3

\* C35: a string corpus of at most 4 "## " sections is forwarded unchanged,
\* of a corpus with more the first 4 sections are forwarded, in order, and
\* nothing of a later section is in the prompt.
C35_FirstFourSections ==
  (tc.pc \in {"processed", "prompted"} /\ tc.isString) =>
    /\ Len(tc.sections) <= TopK =>
         /\ ~tc.forwarded.joined
         /\ tc.forwarded.pieces = SplitSections(tc.preamble, tc.sections)
    /\ Len(tc.sections) > TopK =>
         tc.forwarded.pieces =
           SplitSections(tc.preamble, SubSeq(tc.sections, 1, TopK))
    /\ \A piece \in tc.prompt : piece[1] <= TopK

\* C36: a status poll that gets no response, a response that is not ok or
\* a body without success ends in the wait of the loop, with no error
\* raised; the wait counts the attempt and polls again while attempts are
\* left; and while the job is not in the store callTheHopper returns no
\* result and throws only the timeout error, after maxAttempts attempts.
C36_FailedPollKeepsPolling ==
  [][/\ (cpc = "poll" /\ polls' # polls
         /\ ~(Ok(lastResp') /\ lastResp'.success)) =>
          /\ cpc' = "wait"
          /\ attempts' = attempts
          /\ cerr' = cerr
     /\ (cpc = "wait" /\ cpc' # "wait") =>
          /\ attempts' = attempts + 1
          /\ cpc' = IF attempts' < maxAttempts THEN "poll" ELSE "threw"
     /\ (cjob # 0 /\ cjob \notin DOMAIN store /\ cpc' # cpc) =>
          /\ cpc' # "returned"
          /\ cpc' = "threw" =>
               /\ attempts' = maxAttempts
               /\ cerr' = Wrapped(TimedOutMsg)]_vars

\* The job completed and was evicted, the client has been answered 404 and
\* gave up with the timeout error after 300 attempts.
C36_Witness ==
  /\ cpc = "threw"
  /\ cjob # 0
  /\ cjob \notin DOMAIN store
  /\ pc[cjob] = "done"
  /\ attempts = maxAttempts
  /\ cerr = Wrapped(TimedOutMsg)

NonDecreasing(log) ==
  \A i \in 1 .. Len(log) - 1 : Leq(log[i], log[i + 1])

\* C37: the progress values generatePodcastAudioWithGemini passes to
\* onProgress never decrease from one callback to the next and lie between
\* 10 and 100, whatever chunks the stream delivers; the values PodcastPage
\* sets never decrease either and are at most 100.
C37_ProgressNonDecreasing ==
  /\ NonDecreasing(pg.lib)
  /\ \A i \in 1 .. Len(pg.lib) :
       Leq(Whole(10), pg.lib[i]) /\ Leq(pg.lib[i], Whole(100))
  /\ NonDecreasing(pg.page)
  /\ \A i \in 1 .. Len(pg.page) : Leq(pg.page[i], Whole(100))

\* A generation that finished after several pushed chunks, with a chunk that
\* was empty or failed to decode in between, and that passed through 98.
C37_Witness ==
  /\ pg.pc = "ready"
  /\ pg.chunkIndex >= 2
  /\ pg.skipped >= 1
  /\ pg.enableAudioSave
  /\ pg.lib[Len(pg.lib)] = Whole(100)
  /\ pg.page[Len(pg.page)] = Whole(100)
  /\ pg.page[Len(pg.page) - 1] = Whole(98)

\* C38: every load started by loadTopicSubtopics eventually sets loading
\* back to false, whether generateSubtopics and generateSubtopicContent
\* resolve or reject.
C38_LoadingEventuallyFalse ==
  (lc.pc = "subtopics") ~> ~lc.loading

====
